---------------------------- MODULE Spec2Model ----------------------------
(***************************************************************************)
(* A model of buffalo-azure's `provision` command (src/cmd/provision.go):  *)
(* the template download state machine (downloadTemplate), the tenant      *)
(* discovery loop (getTenant) and the orchestration in provisionCmd.Run.   *)
(***************************************************************************)
EXTENDS Integers, Sequences, FiniteSets, TLC

VARIABLES
    \* ---- downloadTemplate (provision.go 762-816) ----
    dl_pc,          \* "idle" | "enter" | "loop" | "done": position in download()
    dl_src,         \* src: the URL of the current hop
    dl_depth,       \* depth: 1 for the first call, +1 per recursive call
    dl_attempt,     \* attempt: the for loop's counter on the current hop
    dl_err,         \* the error download() returned ("none" while running or on success)
    dl_dest,        \* dest: what io.Copy has written, a sequence of bodies
    dl_last,        \* history: status of the most recent response (0: none, or transport error)
    dl_lastUrl,     \* history: URL and depth the most recent request was issued with
    dl_lastDepth,
    dl_lastBody,    \* history: body of the most recent response ("" : none)
    dl_hopReqs,     \* history: requests issued on the current hop
    dl_hopTransient,\* history: responses on the current hop whose status the code retried
    dl_redirects,   \* history: redirect responses received in this call of downloadTemplate
    dl_total,       \* history: requests issued in this call of downloadTemplate
    \* ---- getTenant (provision.go 818-856) ----
    tenantWorld,    \* what the provider's list iterators have yielded so far: per tenant,
                    \* in order, the IDs of its subscriptions, in order
    gt_pc,          \* "idle" | "list" | "outer" | "mint" | "sublist" | "inner" | "subnext"
                    \* | "tnext" | "after" | "done": position in getTenant
    gt_t,           \* tenantList's position (1-based; Len+1 when NotDone() is false)
    gt_s,           \* subscriptionList's position
    gt_err,         \* the function-level err (var err error, line 822)
    gt_ierr,        \* the err declared in the outer loop's body by := (line 832)
    gt_ret,         \* what getTenant returned: [tenant, auth, err]
    cfg_tenant,     \* provisionConfig's value for TenantIDName
    cfg_writes,     \* history: the number of provisionConfig.Set(TenantIDName, ...) calls
    gt_minted,      \* history: the tenants a tenant-scoped token was minted for, in order
    gt_scanned,     \* history: the <<tenant, subscription position>> pairs compared, in order
    gt_failedAt,    \* history: the tenant at which minting or subscription listing first
                    \* returned an error (0: none), and that error
    gt_failure,
    \* ---- provisionCmd.Args and provisionCmd.Run (provision.go 326-560) ----
    in_clientID,        \* the inputs: whether a client ID / client secret was given,
    in_clientSecret,
    in_deviceFlag,      \* whether --use-device-auth was given,
    in_template,        \* the value of rm-template,
    in_explicit,        \* whether the caller gave rm-template (or it is the default),
    in_skipDeployment,  \* whether --skip-deployment was given
    cfg_deviceAuth,     \* provisionConfig's values: use-device-auth,
    cfg_skipT,          \* skip-template-cache and skip-parameters-cache: "true" | "false"
    cfg_skipP,          \* | "flag" (the flag as the caller gave it, not read yet)
    run_pc,             \* position in Args / Run
    run_abort,          \* "none", or what made Run return early: "args" | "auth" | "template"
    run_exit,           \* what the command reports to its caller once it has returned
    auth_tenantID,      \* getAuthorizer's tenantID
    auth_err,           \* the error getAuthorizer returned ("nil": none)
    authz,              \* auth: the authorizer Run holds
    template,           \* template.Template: the template's bytes
    wr,                 \* what each waitOnResults call returned ("pending": not called yet)
    ctx,                \* the shared context: "none" | "live" | "expired" | "cancelled"
    fx,                 \* history: the kinds of network call and file write made so far
    rgRegion,           \* the provider's resource group: "absent", or its region
    rg_location,        \* insertResourceGroup's location argument
    rg_ret,             \* what insertResourceGroup returned: [created, err]
    files,              \* the two cache files: "absent", or their contents
    d_pc,               \* position of the deployment goroutine
    d_err,              \* the error it holds
    dd_how,             \* history: what doDeployment's SDK call met:
                        \* "none" | "ok" | "provider" | "deadline" | "cancelled"
    dd_params,          \* history: properties.Parameters as deployments.CreateOrUpdate got it
    c_pc,               \* position of each doCache goroutine
    c_err,              \* the error each holds
    ch,                 \* the three result channels: "none" | "open" | "closed"
    ch_log,             \* history: per channel, the send statements begun on it and
                        \* the close calls made on it, in order
    \* ---- stripPasswords called on its own (provision.go 563-575) ----
    sp_original,        \* the argument, *original
    sp_copy,            \* the result, *copy
    sp_calls,            \* history: the number of calls made, the later on the earlier's result
    \* ---- insertResourceGroup (provision.go 599-626) ----
    rg_store,       \* the provider: per resource group name, its region or "absent"
    en_pc,          \* "idle" | "check" | "create": position in insertResourceGroup
    en_name,        \* name
    en_location,    \* location
    existenceResp,  \* existenceResp.StatusCode (0 before the check)
    en_before,      \* history: the group's region when the call began
    en_foreign,     \* history: the names of the groups somebody else created
    en_calls,       \* history: one record per call that has returned
    \* ---- TypeDispatchSubscriber (servicebus_test.go 155-237) ----
    bindings,       \* s.bindings: event type -> handler
    normalizeTypeCase, \* s.normalizeTypeCase
    td_pc,          \* "idle" | "running" | "done": position of one request in Receive
    events,         \* events: the event types of the batch c.Bind decoded
    td_bindErr,     \* whether c.Bind(&events) returned an error
    td_ran,         \* the indices of the events whose goroutine has called wg.Done
    td_handled,     \* history: per event, the handlers it was passed to, in order
    td_codes,       \* history: per event, the response code its handler wrote (0: none)
    td_nohandler,   \* history: the indices of the events whose goroutine found no handler
    ctx_failure,    \* what ctx.ResponseHasFailure() answers
    td_status       \* the HTTP status Receive answered the request with (0: not yet)

dlVars == <<dl_pc, dl_src, dl_depth, dl_attempt, dl_err, dl_dest, dl_last, dl_lastUrl,
            dl_lastDepth, dl_lastBody, dl_hopReqs, dl_hopTransient, dl_redirects, dl_total>>

gtVars == <<tenantWorld, gt_pc, gt_t, gt_s, gt_err, gt_ierr, gt_ret, cfg_tenant, cfg_writes,
            gt_minted, gt_scanned, gt_failedAt, gt_failure>>

inVars == <<in_clientID, in_clientSecret, in_deviceFlag, in_template, in_explicit,
            in_skipDeployment>>

cfgVars == <<cfg_deviceAuth, cfg_skipT, cfg_skipP>>

runVars == <<run_pc, run_abort, run_exit, auth_tenantID, auth_err, authz, template, wr>>

envVars == <<rgRegion, rg_location, files>>

depVars == <<d_pc, d_err, dd_how, dd_params, rg_ret>>

cacheVars == <<c_pc, c_err>>

\* Everything outside downloadTemplate and getTenant.
cmdVars == <<inVars, cfgVars, runVars, ctx, fx, envVars, depVars, cacheVars, ch, ch_log>>

spVars == <<sp_original, sp_copy, sp_calls>>

enVars == <<rg_store, en_pc, en_name, en_location, existenceResp, en_before, en_foreign, en_calls>>
tdVars == <<bindings, normalizeTypeCase, td_pc, events, td_bindErr, td_ran, td_handled, td_codes,
            td_nohandler, ctx_failure, td_status>>
auxVars == <<spVars, enVars, tdVars>>

vars == <<dlVars, gtVars, cmdVars, auxVars>>

CacheBranches == {"template", "params"}

Branches == CacheBranches \cup {"deployment"}

\* LocationDefault
LocationDefault == "centralus"

-----------------------------------------------------------------------------
(* The state of a function that is not running. *)

NoReturn == [tenant |-> "", auth |-> "", err |-> "none"]

\* No DeploymentParameters value.
NoParameters == [Schema |-> "", ContentVersion |-> "", Parameters |-> [k \in {} |-> ""]]

\* The resource groups insertResourceGroup is asked for, and the regions they can be in.
RgNames == {"rg1", "rg2"}
Regions == {"centralus", "eastus"}

EnIdle ==
    /\ rg_store = [n \in RgNames |-> "absent"]
    /\ en_pc = "idle"
    /\ en_name = ""
    /\ en_location = ""
    /\ existenceResp = 0
    /\ en_before = ""
    /\ en_foreign = {}
    /\ en_calls = <<>>

\* A TypeDispatchSubscriber as NewTypeDispatchSubscriber makes it, and no request.
NoBindings == [k \in {} |-> ""]

TdIdle ==
    /\ bindings = NoBindings
    /\ normalizeTypeCase = FALSE
    /\ td_pc = "idle"
    /\ events = <<>>
    /\ td_bindErr = FALSE
    /\ td_ran = {}
    /\ td_handled = <<>>
    /\ td_codes = <<>>
    /\ td_nohandler = {}
    /\ ctx_failure = FALSE
    /\ td_status = 0

StripIdle ==
    /\ sp_original = NoParameters
    /\ sp_copy = NoParameters
    /\ sp_calls = 0

GtIdle ==
    /\ tenantWorld = <<>>
    /\ gt_pc = "idle"
    /\ gt_t = 0
    /\ gt_s = 0
    /\ gt_err = "nil"
    /\ gt_ierr = "nil"
    /\ gt_ret = NoReturn
    /\ cfg_tenant = ""
    /\ cfg_writes = 0
    /\ gt_minted = <<>>
    /\ gt_scanned = <<>>
    /\ gt_failedAt = 0
    /\ gt_failure = "nil"

DlIdle ==
    /\ dl_pc = "idle"
    /\ dl_src = "none"
    /\ dl_depth = 0
    /\ dl_attempt = 0
    /\ dl_err = "none"
    /\ dl_dest = <<>>
    /\ dl_last = 0
    /\ dl_lastUrl = "none"
    /\ dl_lastDepth = 0
    /\ dl_lastBody = ""
    /\ dl_hopReqs = 0
    /\ dl_hopTransient = 0
    /\ dl_redirects = 0
    /\ dl_total = 0

\* The command is not running: getTenant or downloadTemplate is called on its own, with a
\* context that is live.
CmdIdle ==
    /\ in_clientID = FALSE
    /\ in_clientSecret = FALSE
    /\ in_deviceFlag = FALSE
    /\ in_template = "none"
    /\ in_explicit = FALSE
    /\ in_skipDeployment = FALSE
    /\ cfg_deviceAuth = FALSE
    /\ cfg_skipT = "flag"
    /\ cfg_skipP = "flag"
    /\ run_pc = "idle"
    /\ run_abort = "none"
    /\ run_exit = "none"
    /\ auth_tenantID = ""
    /\ auth_err = "nil"
    /\ authz = "none"
    /\ template = <<>>
    /\ wr = [b \in Branches |-> "pending"]
    /\ ctx = "live"
    /\ fx = {}
    /\ rgRegion = "absent"
    /\ rg_location = LocationDefault
    /\ rg_ret = [created |-> FALSE, err |-> "none"]
    /\ files = [b \in CacheBranches |-> "absent"]
    /\ d_pc = "off"
    /\ d_err = "nil"
    /\ dd_how = "none"
    /\ dd_params = NoParameters
    /\ c_pc = [b \in CacheBranches |-> "off"]
    /\ c_err = [b \in CacheBranches |-> "nil"]
    /\ ch = [b \in Branches |-> "none"]
    /\ ch_log = [b \in Branches |-> <<>>]

-----------------------------------------------------------------------------
(* getTenant *)

MaxTenants == 2

MaxSubs == 2

\* *currentSub.SubscriptionID; NilID stands for a nil SubscriptionID pointer.
NilID == "<nil>"

SubIDs == {"a", "A", "b", NilID}

\* The subscription the caller targets.
subscription == "a"

TenantNames == <<"t1", "t2", "t3", "t4">>

\* *tenantList.Value().TenantID of the tenant at position t
TenantID(t) == TenantNames[t]

\* strings.ToLower on the IDs of the model
ToLower(s) == CASE s = "A" -> "a" [] s = "B" -> "b" [] OTHER -> s

\* strings.EqualFold
EqualFold(s, t) == ToLower(s) = ToLower(t)

IsMatchByteForByte(currentSub) == currentSub # NilID /\ currentSub = subscription

\* The condition of the if at line 845.
IsMatch(currentSub) == currentSub # NilID /\ EqualFold(currentSub, subscription)

\* tenantList, err = tenants.ListComplete(ctx): the outer loop's init statement.
\* ok: the call succeeds; more: the list has a first tenant.
GetTenantList(ok, more) ==
    /\ gt_pc = "list"
    /\ gt_err' = IF ok THEN "nil" ELSE "tenant list error"
    /\ tenantWorld' = IF ok /\ more THEN <<<<>>>> ELSE <<>>
    /\ gt_t' = 1
    /\ gt_pc' = "outer"
    /\ UNCHANGED <<gt_s, gt_ierr, gt_ret, cfg_tenant, cfg_writes, gt_minted, gt_scanned,
                   gt_failedAt, gt_failure>>

\* err == nil && tenantList.NotDone(): the outer loop's condition.
GetTenantOuter ==
    /\ gt_pc = "outer"
    /\ gt_pc' = IF gt_err = "nil" /\ gt_t <= Len(tenantWorld) THEN "mint" ELSE "after"
    /\ UNCHANGED <<tenantWorld, gt_t, gt_s, gt_err, gt_ierr, gt_ret, cfg_tenant, cfg_writes,
                   gt_minted, gt_scanned, gt_failedAt, gt_failure>>

\* Lines 831-842: the tenant's OAuth config and its token from the refresh token. Either
\* call may fail, and getTenant then returns that error.
GetTenantMint(ok) ==
    /\ gt_pc = "mint"
    /\ gt_minted' = Append(gt_minted, gt_t)
    /\ IF ok
       THEN /\ gt_pc' = "sublist"
            /\ gt_ierr' = "nil"
            /\ UNCHANGED <<gt_ret, gt_failedAt, gt_failure>>
       ELSE /\ gt_pc' = "done"
            /\ gt_ierr' = "mint error"
            /\ gt_ret' = [tenant |-> "", auth |-> "", err |-> "mint error"]
            /\ gt_failedAt' = IF gt_failedAt = 0 THEN gt_t ELSE gt_failedAt
            /\ gt_failure' = IF gt_failedAt = 0 THEN "mint error" ELSE gt_failure
    /\ UNCHANGED <<tenantWorld, gt_t, gt_s, gt_err, cfg_tenant, cfg_writes, gt_scanned>>

\* subscriptionList, err = subscriptionClient.ListComplete(ctx): the inner loop's init
\* statement. The err it assigns is the one declared in the outer loop's body.
GetTenantListSubs(ok, more, id) ==
    /\ gt_pc = "sublist"
    /\ gt_ierr' = IF ok THEN "nil" ELSE "subscription list error"
    /\ tenantWorld' = IF ok /\ more THEN [tenantWorld EXCEPT ![gt_t] = <<id>>] ELSE tenantWorld
    /\ gt_s' = 1
    /\ gt_pc' = "inner"
    /\ gt_failedAt' = IF ~ok /\ gt_failedAt = 0 THEN gt_t ELSE gt_failedAt
    /\ gt_failure' = IF ~ok /\ gt_failedAt = 0 THEN "subscription list error" ELSE gt_failure
    /\ UNCHANGED <<gt_t, gt_err, gt_ret, cfg_tenant, cfg_writes, gt_minted, gt_scanned>>

GetTenantInnerScansOn ==
    /\ gt_pc = "inner"
    /\ IF gt_ierr = "nil" /\ gt_s <= Len(tenantWorld[gt_t])
       THEN /\ gt_scanned' = Append(gt_scanned, <<gt_t, gt_s>>)
            /\ IF IsMatch(tenantWorld[gt_t][gt_s])
               THEN /\ cfg_tenant' = TenantID(gt_t)
                    /\ cfg_writes' = cfg_writes + 1
                    /\ gt_pc' = "subnext"
                    /\ UNCHANGED gt_ret
               ELSE /\ gt_pc' = "subnext"
                    /\ UNCHANGED <<cfg_tenant, cfg_writes, gt_ret>>
       ELSE /\ gt_pc' = "tnext"
            /\ UNCHANGED <<cfg_tenant, cfg_writes, gt_ret, gt_scanned>>
    /\ UNCHANGED <<tenantWorld, gt_t, gt_s, gt_err, gt_ierr, gt_minted, gt_failedAt,
                   gt_failure>>

\* The inner loop's condition and body (lines 844-849).
GetTenantInner ==
    /\ gt_pc = "inner"
    /\ IF gt_ierr = "nil" /\ gt_s <= Len(tenantWorld[gt_t])
       THEN /\ gt_scanned' = Append(gt_scanned, <<gt_t, gt_s>>)
            /\ IF IsMatch(tenantWorld[gt_t][gt_s])
               THEN /\ cfg_tenant' = TenantID(gt_t)
                    /\ cfg_writes' = cfg_writes + 1
                    /\ gt_ret' = [tenant |-> TenantID(gt_t), auth |-> TenantID(gt_t),
                                  err |-> "none"]
                    /\ gt_pc' = "done"
               ELSE /\ gt_pc' = "subnext"
                    /\ UNCHANGED <<cfg_tenant, cfg_writes, gt_ret>>
       ELSE /\ gt_pc' = "tnext"
            /\ UNCHANGED <<cfg_tenant, cfg_writes, gt_ret, gt_scanned>>
    /\ UNCHANGED <<tenantWorld, gt_t, gt_s, gt_err, gt_ierr, gt_minted, gt_failedAt,
                   gt_failure>>

GetTenantSubNextSkipping(ok, more, id) ==
    /\ gt_pc = "subnext"
    /\ gt_ierr' = IF ok THEN "nil" ELSE "subscription list error"
    /\ tenantWorld' = IF ok /\ more /\ Len(tenantWorld[gt_t]) < MaxSubs
                      THEN [tenantWorld EXCEPT ![gt_t] = Append(@, id)]
                      ELSE tenantWorld
    /\ gt_s' = gt_s + 2
    /\ gt_pc' = "inner"
    /\ gt_failedAt' = IF ~ok /\ gt_failedAt = 0 THEN gt_t ELSE gt_failedAt
    /\ gt_failure' = IF ~ok /\ gt_failedAt = 0 THEN "subscription list error" ELSE gt_failure
    /\ UNCHANGED <<gt_t, gt_err, gt_ret, cfg_tenant, cfg_writes, gt_minted, gt_scanned>>

\* err = subscriptionList.Next(): the inner loop's post statement.
GetTenantSubNext(ok, more, id) ==
    /\ gt_pc = "subnext"
    /\ gt_ierr' = IF ok THEN "nil" ELSE "subscription list error"
    /\ tenantWorld' = IF ok /\ more /\ Len(tenantWorld[gt_t]) < MaxSubs
                      THEN [tenantWorld EXCEPT ![gt_t] = Append(@, id)]
                      ELSE tenantWorld
    /\ gt_s' = gt_s + 1
    /\ gt_pc' = "inner"
    /\ gt_failedAt' = IF ~ok /\ gt_failedAt = 0 THEN gt_t ELSE gt_failedAt
    /\ gt_failure' = IF ~ok /\ gt_failedAt = 0 THEN "subscription list error" ELSE gt_failure
    /\ UNCHANGED <<gt_t, gt_err, gt_ret, cfg_tenant, cfg_writes, gt_minted, gt_scanned>>

\* err = tenantList.Next(): the outer loop's post statement. It assigns the function-level
\* err; the body's err goes out of scope here.
GetTenantNext(ok, more) ==
    /\ gt_pc = "tnext"
    /\ gt_err' = IF ok THEN "nil" ELSE "tenant list error"
    /\ tenantWorld' = IF ok /\ more /\ Len(tenantWorld) < MaxTenants
                      THEN Append(tenantWorld, <<>>)
                      ELSE tenantWorld
    /\ gt_ierr' = "nil"
    /\ gt_t' = gt_t + 1
    /\ gt_s' = 0
    /\ gt_pc' = "outer"
    /\ UNCHANGED <<gt_ret, cfg_tenant, cfg_writes, gt_minted, gt_scanned, gt_failedAt,
                   gt_failure>>

\* Lines 851-855.
GetTenantAfter ==
    /\ gt_pc = "after"
    /\ gt_ret' = [tenant |-> "", auth |-> "",
                  err |-> IF gt_err # "nil" THEN gt_err ELSE "unable to find subscription"]
    /\ gt_pc' = "done"
    /\ UNCHANGED <<tenantWorld, gt_t, gt_s, gt_err, gt_ierr, cfg_tenant, cfg_writes, gt_minted,
                   gt_scanned, gt_failedAt, gt_failure>>

\* getTenant called on its own.
InitTenant ==
    /\ tenantWorld = <<>>
    /\ gt_pc = "list"
    /\ gt_t = 0
    /\ gt_s = 0
    /\ gt_err = "nil"
    /\ gt_ierr = "nil"
    /\ gt_ret = NoReturn
    /\ cfg_tenant = ""
    /\ cfg_writes = 0
    /\ gt_minted = <<>>
    /\ gt_scanned = <<>>
    /\ gt_failedAt = 0
    /\ gt_failure = "nil"
    /\ DlIdle
    /\ CmdIdle
    /\ StripIdle
    /\ EnIdle
    /\ TdIdle

NextTenant ==
    \/ (\E ok, more \in BOOLEAN : GetTenantList(ok, more))
           /\ UNCHANGED <<dlVars, cmdVars, auxVars>>
    \/ GetTenantOuter /\ UNCHANGED <<dlVars, cmdVars, auxVars>>
    \/ (\E ok \in BOOLEAN : GetTenantMint(ok)) /\ UNCHANGED <<dlVars, cmdVars, auxVars>>
    \/ (\E ok, more \in BOOLEAN, id \in SubIDs : GetTenantListSubs(ok, more, id))
           /\ UNCHANGED <<dlVars, cmdVars, auxVars>>
    \/ GetTenantInner /\ UNCHANGED <<dlVars, cmdVars, auxVars>>
    \/ (\E ok, more \in BOOLEAN, id \in SubIDs : GetTenantSubNext(ok, more, id))
           /\ UNCHANGED <<dlVars, cmdVars, auxVars>>
    \/ (\E ok, more \in BOOLEAN : GetTenantNext(ok, more))
           /\ UNCHANGED <<dlVars, cmdVars, auxVars>>
    \/ GetTenantAfter /\ UNCHANGED <<dlVars, cmdVars, auxVars>>

SpecTenant == InitTenant /\ [][NextTenant]_vars

-----------------------------------------------------------------------------
(* downloadTemplate *)

maxRedirects == 5

maxRetries == 3

redirectCodes == {301, 308, 307, 303, 302}

temporaryFailureCodes == {429, 504, 408}

acceptedCodes == {200}

\* The statuses a server may answer with: the three sets above and some outside them.
Statuses == {200, 204, 301, 302, 303, 307, 308, 404, 408, 429, 500, 502, 504}

\* URLs: the one downloadTemplate is called with, and what a Location header may hold.
Urls == {"u0", "u1"}

Bodies == {"B1", "B2"}

TooDeepOffByOne(depth) == depth > maxRedirects + 1

\* depth > maxRedirects, the check at the head of download()
TooDeep(depth) == depth > maxRedirects

\* A loop that runs once more than maxRetries.
RetryAllowedOffByOne(attempt) == attempt <= maxRetries

\* attempt < maxRetries, the for loop's condition
RetryAllowed(attempt) == attempt < maxRetries

ClassifyRetriesServerErrors(status) ==
    IF status \in acceptedCodes THEN "accept"
    ELSE IF status \in redirectCodes THEN "redirect"
    ELSE IF status \in temporaryFailureCodes \/ status >= 500 THEN "retry"
    ELSE "unexpected"

\* The if-chain on resp.StatusCode, in the order of the code.
Classify(status) ==
    IF status \in acceptedCodes THEN "accept"
    ELSE IF status \in redirectCodes THEN "redirect"
    ELSE IF status \in temporaryFailureCodes THEN "retry"
    ELSE "unexpected"

\* io.Copy(dest, resp.Body): the body is appended to dest, or part of it when the copy fails.
Copy(dest, body, copyOk) == Append(dest, IF copyOk THEN body ELSE "truncated")

AttemptInitCarriedOver(attempt) == attempt

\* `attempt := 0`, the init statement of the for loop; attempt is the counter of the
\* caller's frame, which the new frame does not see.
AttemptInit(attempt) == 0

\* fmt.Errorf("unexpected status code: %d", resp.StatusCode)
UnexpectedStatusCode(status) == "unexpected status code: " \o ToString(status)

\* The depth the first call of download() is made with.
FirstDepth == 1

DlStart(url) ==
    /\ dl_pc' = "enter"
    /\ dl_src' = url
    /\ dl_depth' = FirstDepth
    /\ dl_attempt' = 0
    /\ dl_err' = "none"
    /\ dl_dest' = <<>>
    /\ dl_last' = 0
    /\ dl_lastUrl' = "none"
    /\ dl_lastDepth' = 0
    /\ dl_lastBody' = ""
    /\ dl_hopReqs' = 0
    /\ dl_hopTransient' = 0
    /\ dl_redirects' = 0
    /\ dl_total' = 0

\* Entry of download(ctx, dest, src, depth): the depth check, then the loop's init.
DownloadEnter ==
    /\ dl_pc = "enter"
    /\ IF TooDeep(dl_depth)
       THEN /\ dl_pc' = "done"
            /\ dl_err' = "too many redirects"
            /\ UNCHANGED <<dl_attempt, dl_hopReqs, dl_hopTransient>>
       ELSE /\ dl_pc' = "loop"
            /\ dl_attempt' = AttemptInit(dl_attempt)
            /\ dl_hopReqs' = 0
            /\ dl_hopTransient' = 0
            /\ UNCHANGED dl_err
    /\ UNCHANGED <<dl_src, dl_depth, dl_dest, dl_last, dl_lastUrl, dl_lastDepth, dl_lastBody,
                   dl_redirects,
                   dl_total>>

\* The loop condition fails: err = errors.New("too many attempts").
DownloadExhausted ==
    /\ dl_pc = "loop"
    /\ ~RetryAllowed(dl_attempt)
    /\ dl_pc' = "done"
    /\ dl_err' = "too many attempts"
    /\ UNCHANGED <<dl_src, dl_depth, dl_attempt, dl_dest, dl_last, dl_lastUrl, dl_lastDepth,
                   dl_lastBody,
                   dl_hopReqs, dl_hopTransient, dl_redirects, dl_total>>

\* http.NewRequest or http.DefaultClient.Do returns an error: download returns it.
DownloadRequestError ==
    /\ dl_pc = "loop"
    /\ RetryAllowed(dl_attempt)
    /\ dl_pc' = "done"
    /\ dl_err' = "request error"
    /\ dl_last' = 0
    /\ dl_lastUrl' = dl_src
    /\ dl_lastDepth' = dl_depth
    /\ dl_lastBody' = ""
    /\ dl_hopReqs' = dl_hopReqs + 1
    /\ dl_total' = dl_total + 1
    /\ UNCHANGED <<dl_src, dl_depth, dl_attempt, dl_dest, dl_hopTransient, dl_redirects>>

\* One pass of the loop body with a response: status, its Location header, its body,
\* and whether io.Copy of the body succeeds.
DownloadResponse(status, loc, body, copyOk) ==
    /\ dl_pc = "loop"
    /\ RetryAllowed(dl_attempt)
    /\ dl_last' = status
    /\ dl_lastUrl' = dl_src
    /\ dl_lastDepth' = dl_depth
    /\ dl_lastBody' = body
    /\ dl_hopReqs' = dl_hopReqs + 1
    /\ dl_total' = dl_total + 1
    /\ CASE Classify(status) = "accept" ->
              /\ dl_pc' = "done"
              /\ dl_dest' = Copy(dl_dest, body, copyOk)
              /\ dl_err' = IF copyOk THEN "none" ELSE "copy error"
              /\ UNCHANGED <<dl_src, dl_depth, dl_attempt, dl_hopTransient, dl_redirects>>
         [] Classify(status) = "redirect" ->
              /\ dl_pc' = "enter"
              /\ dl_src' = loc
              /\ dl_depth' = dl_depth + 1
              /\ dl_redirects' = dl_redirects + 1
              /\ UNCHANGED <<dl_attempt, dl_err, dl_dest, dl_hopTransient>>
         [] Classify(status) = "retry" ->
              /\ dl_pc' = "loop"
              /\ dl_attempt' = dl_attempt + 1
              /\ dl_hopTransient' = dl_hopTransient + 1
              /\ UNCHANGED <<dl_src, dl_depth, dl_err, dl_dest, dl_redirects>>
         [] OTHER ->
              /\ dl_pc' = "done"
              /\ dl_err' = UnexpectedStatusCode(status)
              /\ UNCHANGED <<dl_src, dl_depth, dl_attempt, dl_dest, dl_hopTransient,
                             dl_redirects>>

DownloadStep ==
    \E status \in Statuses, loc \in Urls, body \in Bodies, copyOk \in BOOLEAN :
        DownloadResponse(status, loc, body, copyOk)

\* downloadTemplate called on its own, with any URL.
InitDownload ==
    /\ dl_pc = "enter"
    /\ dl_src \in Urls
    /\ dl_depth = FirstDepth
    /\ dl_attempt = 0
    /\ dl_err = "none"
    /\ dl_dest = <<>>
    /\ dl_last = 0
    /\ dl_lastUrl = "none"
    /\ dl_lastDepth = 0
    /\ dl_lastBody = ""
    /\ dl_hopReqs = 0
    /\ dl_hopTransient = 0
    /\ dl_redirects = 0
    /\ dl_total = 0
    /\ GtIdle
    /\ CmdIdle
    /\ StripIdle
    /\ EnIdle
    /\ TdIdle

NextDownload ==
    \/ DownloadEnter /\ UNCHANGED <<gtVars, cmdVars, auxVars>>
    \/ DownloadExhausted /\ UNCHANGED <<gtVars, cmdVars, auxVars>>
    \/ DownloadRequestError /\ UNCHANGED <<gtVars, cmdVars, auxVars>>
    \/ DownloadStep /\ UNCHANGED <<gtVars, cmdVars, auxVars>>

SpecDownload == InitDownload /\ [][NextDownload]_vars

-----------------------------------------------------------------------------
(* stripPasswords; the parameters of a run *)

\* The keys a parameter set can hold: the two stripPasswords deletes, and one other.
ParameterKeys == {"name", "databaseAdministratorLoginPassword", "dockerRegistryServerPassword"}

ParameterValues == {"v1", "v2"}

\* The maps from some of the keys to values.
ParameterMaps == UNION {[keys -> ParameterValues] : keys \in SUBSET ParameterKeys}

\* The DeploymentParameters values stripPasswords is called on.
ParameterSets ==
    [Schema : {"schema1", "schema2"}, ContentVersion : {"1.0", "2.0"}, Parameters : ParameterMaps]

\* delete(m, key)
Delete(m, key) == [k \in DOMAIN m \ {key} |-> m[k]]

\* m[key] = value
SetKey(m, key, value) == [k \in DOMAIN m \cup {key} |-> IF k = key THEN value ELSE m[k]]

stripPasswordsOfOneKey(original) ==
    [Schema |-> original.Schema,
     ContentVersion |-> original.ContentVersion,
     Parameters |-> Delete([k \in DOMAIN original.Parameters |-> original.Parameters[k]],
                           "databaseAdministratorLoginPassword")]

\* stripPasswords (lines 563-575): a new value with the schema, the content version and
\* every entry of original's map, from which the two password keys are then deleted.
stripPasswords(original) ==
    LET copied == [k \in DOMAIN original.Parameters |-> original.Parameters[k]]
    IN  [Schema |-> original.Schema,
         ContentVersion |-> original.ContentVersion,
         Parameters |-> Delete(Delete(copied, "databaseAdministratorLoginPassword"),
                               "dockerRegistryServerPassword")]

\* One call of stripPasswords; a later call is made on the earlier one's result.
StripCall ==
    /\ sp_calls < 2
    /\ LET original == IF sp_calls = 0 THEN sp_original ELSE sp_copy
       IN  /\ sp_original' = original
           /\ sp_copy' = stripPasswords(original)
    /\ sp_calls' = sp_calls + 1
    /\ UNCHANGED <<dlVars, gtVars, cmdVars, enVars, tdVars>>

InitStrip ==
    /\ sp_original \in ParameterSets
    /\ sp_copy = NoParameters
    /\ sp_calls = 0
    /\ DlIdle
    /\ GtIdle
    /\ CmdIdle
    /\ EnIdle
    /\ TdIdle

NextStrip == StripCall

SpecStrip == InitStrip /\ [][NextStrip]_vars

\* The parameters the command starts from: those of the parameters file (lines 989-994 and
\* 533-536). This file names the site, holds a registry password and no database password.
LoadedParameters ==
    [Schema |-> "schema1",
     ContentVersion |-> "1.0",
     Parameters |-> [k \in {"name", "dockerRegistryServerPassword"} |->
                        IF k = "name" THEN "v1" ELSE "v2"]]

\* deployParams once Run has set its entries (lines 386-395): the site's name, the two
\* passwords as the configuration holds them. The seven other entries are set like name.
deployParams ==
    [LoadedParameters EXCEPT !.Parameters =
        SetKey(SetKey(SetKey(@, "name", "site"),
                      "databaseAdministratorLoginPassword", "database password"),
               "dockerRegistryServerPassword", "registry password")]

\* template.Parameters (line 403)
TemplateParameters == deployParams.Parameters

-----------------------------------------------------------------------------
(* provisionCmd.Args, getAuthorizer *)

TemplateDefault == "./azuredeploy.json"

TemplateDefaultLink == "https://aka.ms/buffalo-template"

\* What rm-template holds when the caller does not give it (lines 983-987).
DefaultLocations == {TemplateDefault, TemplateDefaultLink}

\* Values a caller may give: a link with an upper-case scheme, and a link with a scheme the
\* program does not fetch.
UserLocations == {"HTTP://example.com/t.json", "ftp://example.com/t.json"}

\* url.ParseRequestURI(subject): whether it parses, and the scheme of the result (which
\* url.Parse lower-cases).
ParseRequestURI(subject) ==
    CASE subject = TemplateDefaultLink -> [ok |-> TRUE, Scheme |-> "https"]
      [] subject = "HTTP://example.com/t.json" -> [ok |-> TRUE, Scheme |-> "http"]
      [] subject = "ftp://example.com/t.json" -> [ok |-> TRUE, Scheme |-> "ftp"]
      [] OTHER -> [ok |-> FALSE, Scheme |-> ""]

supportedLinkSchemes == {"http", "https"}

isSupportedLink(subject) ==
    LET parsed == ParseRequestURI(subject)
    IN  parsed.ok /\ parsed.Scheme \in supportedLinkSchemes

commonTenant == "common"

\* ctx.Err()
CtxErr(c) == IF c = "expired" THEN "context deadline exceeded" ELSE "context canceled"

CtxErrors == {"context deadline exceeded", "context canceled"}

\* Whether a call that is given ctx can succeed.
OkUnder(c) == IF c = "live" THEN BOOLEAN ELSE {FALSE}

\* The command's report to its caller. Run is a cobra Run function: it returns no value, and
\* the three values waitOnResults returns (lines 479-481) are dropped.
RunReports(results) == "success"

\* Run returns: the deferred cancel() runs.
RunReturns(why) ==
    /\ run_pc' = "returned"
    /\ run_abort' = why
    /\ run_exit' = RunReports(wr)
    /\ ctx' = IF ctx = "live" THEN "cancelled" ELSE ctx

RunArgsWithoutTheCheck ==
    /\ run_pc = "args"
    /\ IF ~in_clientSecret /\ ~in_clientID
       THEN /\ cfg_deviceAuth' = TRUE
            /\ run_pc' = "begin"
            /\ UNCHANGED <<run_abort, run_exit>>
       ELSE /\ run_pc' = "begin"
            /\ UNCHANGED <<cfg_deviceAuth, run_abort, run_exit>>
    /\ cfg_skipT' = IF in_template = TemplateDefault THEN "true" ELSE cfg_skipT
    /\ UNCHANGED <<auxVars, inVars, cfg_skipP, auth_tenantID, auth_err, authz, template, wr,
                   ctx, fx, envVars, depVars, cacheVars, ch, ch_log, dlVars, gtVars>>

\* Args (lines 483-560): the credential check and the template-cache default. Its other
\* checks (log level, parameters file, environment name) are not modelled.
RunArgs ==
    /\ run_pc = "args"
    /\ IF ~in_clientSecret /\ ~in_clientID
       THEN /\ cfg_deviceAuth' = TRUE
            /\ run_pc' = "begin"
            /\ UNCHANGED <<run_abort, run_exit>>
       ELSE IF (in_clientID \/ in_clientSecret) /\ ~(in_clientID /\ in_clientSecret)
       THEN /\ run_pc' = "returned"
            /\ run_abort' = "args"
            /\ run_exit' = "usage error"
            /\ UNCHANGED cfg_deviceAuth
       ELSE /\ run_pc' = "begin"
            /\ UNCHANGED <<cfg_deviceAuth, run_abort, run_exit>>
    /\ cfg_skipT' = IF in_template = TemplateDefault THEN "true" ELSE cfg_skipT
    /\ UNCHANGED <<auxVars, inVars, cfg_skipP, auth_tenantID, auth_err, authz, template, wr,
                   ctx, fx, envVars, depVars, cacheVars, ch, ch_log, dlVars, gtVars>>

\* Lines 328-350: the context with its 45 minute deadline, and the choice to authenticate.
RunBegin ==
    /\ run_pc = "begin"
    /\ ctx' = "live"
    /\ run_pc' = IF in_skipDeployment THEN "template" ELSE "auth"
    /\ UNCHANGED <<auxVars, inVars, cfgVars, run_abort, run_exit, auth_tenantID, auth_err,
                   authz, template, wr, fx, envVars, depVars, cacheVars, ch, ch_log, dlVars,
                   gtVars>>

\* The shared deadline passes.
Expire ==
    /\ ctx = "live"
    /\ ctx' = "expired"
    /\ UNCHANGED <<auxVars, inVars, cfgVars, runVars, fx, envVars, depVars, cacheVars, ch,
                   ch_log, dlVars, gtVars>>

\* What Run does with getAuthorizer's error (lines 346-349).
AfterAuthError == "return"

\* A Run that met getAuthorizer's error and went on to the template all the same.
AuthErrorIgnored ==
    /\ run_pc' = "template"
    /\ run_abort' = "auth"
    /\ UNCHANGED <<run_exit, ctx>>

\* getAuthorizer, lines 629-640: the tenant, the OAuth config, the choice of flow.
AuthConfig(ok) ==
    /\ run_pc = "auth"
    /\ auth_tenantID' = IF cfg_tenant = "" THEN commonTenant ELSE cfg_tenant
    /\ auth_err' = IF ok THEN "nil" ELSE "OAuth config error"
    /\ IF ok
       THEN /\ run_pc' = IF cfg_deviceAuth THEN "devinit" ELSE "sp"
            /\ UNCHANGED <<run_abort, run_exit, ctx>>
       ELSE IF AfterAuthError = "return" THEN RunReturns("auth")
       ELSE AuthErrorIgnored
    /\ UNCHANGED <<auxVars, inVars, cfgVars, authz, template, wr, fx, envVars, depVars,
                   cacheVars, ch, ch_log, dlVars, gtVars>>

\* adal.InitiateDeviceAuth (lines 643-651).
AuthDeviceInit(ok) ==
    /\ run_pc = "devinit"
    /\ fx' = fx \cup {"device_code"}
    /\ auth_err' = IF ok THEN "nil" ELSE "device code error"
    /\ IF ok
       THEN run_pc' = "devwait" /\ UNCHANGED <<run_abort, run_exit, ctx>>
       ELSE IF AfterAuthError = "return" THEN RunReturns("auth")
       ELSE AuthErrorIgnored
    /\ UNCHANGED <<auxVars, inVars, cfgVars, auth_tenantID, authz, template, wr, envVars,
                   depVars, cacheVars, ch, ch_log, dlVars, gtVars>>

AuthDeviceWaitKeepsToken(ok) ==
    /\ run_pc = "devwait"
    /\ fx' = fx \cup {"device_poll"}
    /\ auth_err' = IF ok THEN "nil" ELSE "device token error"
    /\ IF ok
       THEN /\ run_pc' = "template"
            /\ authz' = "bearer:device"
            /\ UNCHANGED gt_pc
            /\ UNCHANGED <<run_abort, run_exit, ctx>>
       ELSE /\ IF AfterAuthError = "return" THEN RunReturns("auth")
               ELSE AuthErrorIgnored
            /\ UNCHANGED <<authz, gt_pc>>
    /\ UNCHANGED <<auxVars, inVars, cfgVars, auth_tenantID, template, wr, envVars, depVars,
                   cacheVars, ch, ch_log, dlVars, tenantWorld, gt_t, gt_s, gt_err, gt_ierr,
                   gt_ret, cfg_tenant, cfg_writes, gt_minted, gt_scanned, gt_failedAt,
                   gt_failure>>

\* adal.WaitForUserCompletion, then the choice at line 659: getTenant is called, or the
\* device-flow token becomes the authorizer.
AuthDeviceWait(ok) ==
    /\ run_pc = "devwait"
    /\ fx' = fx \cup {"device_poll"}
    /\ auth_err' = IF ok THEN "nil" ELSE "device token error"
    /\ IF ok
       THEN /\ IF auth_tenantID = commonTenant
               THEN /\ run_pc' = "gettenant"
                    /\ gt_pc' = "list"
                    /\ UNCHANGED authz
               ELSE /\ run_pc' = "template"
                    /\ authz' = "bearer:device"
                    /\ UNCHANGED gt_pc
            /\ UNCHANGED <<run_abort, run_exit, ctx>>
       ELSE /\ IF AfterAuthError = "return" THEN RunReturns("auth")
               ELSE AuthErrorIgnored
            /\ UNCHANGED <<authz, gt_pc>>
    /\ UNCHANGED <<auxVars, inVars, cfgVars, auth_tenantID, template, wr, envVars, depVars,
                   cacheVars, ch, ch_log, dlVars, tenantWorld, gt_t, gt_s, gt_err, gt_ierr,
                   gt_ret, cfg_tenant, cfg_writes, gt_minted, gt_scanned, gt_failedAt,
                   gt_failure>>

\* getTenant has returned to getAuthorizer (lines 661-666); its locals are gone.
AuthGetTenantReturn ==
    /\ run_pc = "gettenant"
    /\ gt_pc = "done"
    /\ auth_err' = IF gt_ret.err = "none" THEN "nil" ELSE gt_ret.err
    /\ IF gt_ret.err = "none"
       THEN /\ run_pc' = "template"
            /\ auth_tenantID' = gt_ret.tenant
            /\ authz' = gt_ret.auth
            /\ UNCHANGED <<run_abort, run_exit, ctx>>
       ELSE /\ IF AfterAuthError = "return" THEN RunReturns("auth")
               ELSE AuthErrorIgnored
            /\ UNCHANGED <<auth_tenantID, authz>>
    /\ tenantWorld' = <<>>
    /\ gt_pc' = "idle"
    /\ gt_t' = 0
    /\ gt_s' = 0
    /\ gt_err' = "nil"
    /\ gt_ierr' = "nil"
    /\ gt_ret' = NoReturn
    /\ gt_minted' = <<>>
    /\ gt_scanned' = <<>>
    /\ gt_failedAt' = 0
    /\ gt_failure' = "nil"
    /\ UNCHANGED <<auxVars, inVars, cfgVars, template, wr, fx, envVars, depVars, cacheVars, ch,
                   ch_log, dlVars, cfg_tenant, cfg_writes>>

\* The error of line 672.
TenantInferenceUnsupported ==
    "tenant inference unsupported with Service Principal authentication"

AuthServicePrincipalAnyTenant(ok) ==
    /\ run_pc = "sp"
    /\ auth_err' = IF ok THEN "nil" ELSE "service principal token error"
    /\ fx' = fx \cup {"sp_token"}
    /\ IF ok
       THEN /\ run_pc' = "template"
            /\ authz' = "bearer:sp"
            /\ UNCHANGED <<run_abort, run_exit, ctx>>
       ELSE /\ IF AfterAuthError = "return" THEN RunReturns("auth")
               ELSE AuthErrorIgnored
            /\ UNCHANGED authz
    /\ UNCHANGED <<auxVars, inVars, cfgVars, auth_tenantID, template, wr, envVars, depVars,
                   cacheVars, ch, ch_log, dlVars, gtVars>>

\* Lines 671-684: the service-principal flow.
AuthServicePrincipal(ok) ==
    /\ run_pc = "sp"
    /\ auth_err' = IF auth_tenantID = commonTenant THEN TenantInferenceUnsupported
                   ELSE IF ok THEN "nil" ELSE "service principal token error"
    /\ IF auth_tenantID = commonTenant
       THEN /\ IF AfterAuthError = "return" THEN RunReturns("auth")
               ELSE AuthErrorIgnored
            /\ UNCHANGED <<authz, fx>>
       ELSE /\ fx' = fx \cup {"sp_token"}
            /\ IF ok
               THEN /\ run_pc' = "template"
                    /\ authz' = "bearer:sp"
                    /\ UNCHANGED <<run_abort, run_exit, ctx>>
               ELSE /\ IF AfterAuthError = "return" THEN RunReturns("auth")
                       ELSE AuthErrorIgnored
                    /\ UNCHANGED authz
    /\ UNCHANGED <<auxVars, inVars, cfgVars, auth_tenantID, template, wr, envVars, depVars,
                   cacheVars, ch, ch_log, dlVars, gtVars>>

-----------------------------------------------------------------------------
(* getDeploymentTemplate as Run calls it *)

AfterTemplateErrorGoesOn == "go on"

\* What Run does with getDeploymentTemplate's error (lines 398-401).
AfterTemplateError == "return"

\* A Run that met getDeploymentTemplate's error and went on to the branches all the same.
TemplateErrorIgnored ==
    /\ run_pc' = "spawn"
    /\ run_abort' = "template"
    /\ UNCHANGED <<run_exit, ctx>>

\* The bytes of a local template file.
LocalBody == "L1"

\* getDeploymentTemplate (lines 715-742): a supported link is downloaded, anything else is
\* opened as a file (ok: os.Open and ReadAll succeed).
RunTemplate(ok) ==
    /\ run_pc = "template"
    /\ IF isSupportedLink(in_template)
       THEN /\ run_pc' = "download"
            /\ DlStart(in_template)
            /\ UNCHANGED <<run_abort, run_exit, ctx, template>>
       ELSE /\ IF ok
               THEN /\ run_pc' = "spawn"
                    /\ template' = <<LocalBody>>
                    /\ UNCHANGED <<run_abort, run_exit, ctx>>
               ELSE /\ IF AfterTemplateError = "return" THEN RunReturns("template")
                       ELSE TemplateErrorIgnored
                    /\ UNCHANGED template
            /\ UNCHANGED dlVars
    /\ UNCHANGED <<auxVars, inVars, cfgVars, auth_tenantID, auth_err, authz, wr, fx, envVars,
                   depVars, cacheVars, ch, ch_log, gtVars>>

\* downloadTemplate has returned (lines 719-726); its locals are gone.
RunDownloadReturn ==
    /\ run_pc = "download"
    /\ dl_pc = "done"
    /\ IF dl_err = "none"
       THEN /\ run_pc' = "spawn"
            /\ template' = dl_dest
            /\ UNCHANGED <<run_abort, run_exit, ctx>>
       ELSE /\ IF AfterTemplateError = "return" THEN RunReturns("template")
               ELSE TemplateErrorIgnored
            /\ UNCHANGED template
    /\ dl_pc' = "idle"
    /\ dl_src' = "none"
    /\ dl_depth' = 0
    /\ dl_attempt' = 0
    /\ dl_err' = "none"
    /\ dl_dest' = <<>>
    /\ dl_last' = 0
    /\ dl_lastUrl' = "none"
    /\ dl_lastDepth' = 0
    /\ dl_lastBody' = ""
    /\ dl_hopReqs' = 0
    /\ dl_hopTransient' = 0
    /\ dl_redirects' = 0
    /\ dl_total' = 0
    /\ UNCHANGED <<auxVars, inVars, cfgVars, auth_tenantID, auth_err, authz, wr, fx, envVars,
                   depVars, cacheVars, ch, ch_log, gtVars>>

-----------------------------------------------------------------------------
(* Run: the three branches and the waits (lines 406-481) *)

\* ch_log once `what` has happened on the channel of branch b: "send" when a goroutine
\* reaches errOut <- err, "close:run" and "close:branch" for close() called by Run and by
\* the goroutine's deferred close.
Logged(b, what) == [ch_log EXCEPT ![b] = Append(@, what)]

\* Lines 406-443: the deployment channel; the goroutine, unless --skip-deployment.
RunSpawnDeployment ==
    /\ run_pc = "spawn"
    /\ run_pc' = "spawnT"
    /\ IF in_skipDeployment
       THEN /\ ch' = [ch EXCEPT !["deployment"] = "closed"]
            /\ ch_log' = Logged("deployment", "close:run")
            /\ UNCHANGED d_pc
       ELSE /\ ch' = [ch EXCEPT !["deployment"] = "open"]
            /\ d_pc' = "check"
            /\ UNCHANGED ch_log
    /\ UNCHANGED <<auxVars, inVars, cfgVars, run_abort, run_exit, auth_tenantID, auth_err,
                   authz, template, wr, ctx, fx, envVars, d_err, dd_how, dd_params, rg_ret,
                   cacheVars, dlVars, gtVars>>

RunSpawnCacheWhateverTheFlag(b, skip) ==
    /\ run_pc = IF b = "template" THEN "spawnT" ELSE "spawnP"
    /\ run_pc' = IF b = "template" THEN "spawnP" ELSE "waitT"
    /\ IF b = "template"
       THEN /\ skip \in (IF cfg_skipT = "flag" THEN BOOLEAN ELSE {cfg_skipT = "true"})
            /\ cfg_skipT' = IF skip THEN "true" ELSE "false"
            /\ UNCHANGED cfg_skipP
       ELSE /\ skip \in (IF cfg_skipP = "flag" THEN BOOLEAN ELSE {cfg_skipP = "true"})
            /\ cfg_skipP' = IF skip THEN "true" ELSE "false"
            /\ UNCHANGED cfg_skipT
    /\ ch' = [ch EXCEPT ![b] = "open"]
    /\ c_pc' = [c_pc EXCEPT ![b] = "run"]
    /\ UNCHANGED ch_log
    /\ UNCHANGED <<auxVars, inVars, cfg_deviceAuth, run_abort, run_exit, auth_tenantID,
                   auth_err, authz, template, wr, ctx, fx, envVars, depVars, c_err, dlVars,
                   gtVars>>

\* Lines 457-468 for one cache file: its channel; its goroutine, unless the skip flag is
\* set. A flag Args did not set is read here as the caller gave it.
RunSpawnCache(b, skip) ==
    /\ run_pc = IF b = "template" THEN "spawnT" ELSE "spawnP"
    /\ run_pc' = IF b = "template" THEN "spawnP" ELSE "waitT"
    /\ IF b = "template"
       THEN /\ skip \in (IF cfg_skipT = "flag" THEN BOOLEAN ELSE {cfg_skipT = "true"})
            /\ cfg_skipT' = IF skip THEN "true" ELSE "false"
            /\ UNCHANGED cfg_skipP
       ELSE /\ skip \in (IF cfg_skipP = "flag" THEN BOOLEAN ELSE {cfg_skipP = "true"})
            /\ cfg_skipP' = IF skip THEN "true" ELSE "false"
            /\ UNCHANGED cfg_skipT
    /\ IF skip
       THEN /\ ch' = [ch EXCEPT ![b] = "closed"]
            /\ ch_log' = Logged(b, "close:run")
            /\ UNCHANGED c_pc
       ELSE /\ ch' = [ch EXCEPT ![b] = "open"]
            /\ c_pc' = [c_pc EXCEPT ![b] = "run"]
            /\ UNCHANGED ch_log
    /\ UNCHANGED <<auxVars, inVars, cfg_deviceAuth, run_abort, run_exit, auth_tenantID,
                   auth_err, authz, template, wr, ctx, fx, envVars, depVars, c_err, dlVars,
                   gtVars>>

\* The channel and the wait of each position of Run, and the position after it.
WaitBranch(pc) ==
    CASE pc = "waitT" -> "template" [] pc = "waitP" -> "params" [] OTHER -> "deployment"

WaitNextAfterFirst(pc) == CASE pc = "waitT" -> "waitD" [] OTHER -> "exit"

WaitNext(pc) == CASE pc = "waitT" -> "waitP" [] pc = "waitP" -> "waitD" [] OTHER -> "exit"

AfterWaitStopsOnError(pc, err) == IF err # "nil" THEN "exit" ELSE WaitNext(pc)

\* Where Run goes after a waitOnResults call that returned err: to the next statement,
\* whatever err is (lines 479-481).
AfterWait(pc, err) == WaitNext(pc)

\* The error a branch is blocked sending on its channel ("nil": it is not sending).
Sending(b) ==
    IF b = "deployment"
    THEN IF d_pc = "send" THEN d_err ELSE "nil"
    ELSE IF c_pc[b] = "send" THEN c_err[b] ELSE "nil"

AfterSendGoesOn(b) == IF b = "deployment" THEN "submit" ELSE "close"

\* Where a goroutine is once its send has been received: at the `return` that follows
\* errOut <- err (lines 422, 439, 452), that is, at its deferred close.
AfterSend(b) == "close"

CtxDoneNever(c) == FALSE

\* Whether the channel ctx.Done() is closed: the deadline has passed or cancel was called.
CtxDone(c) == c # "live"

\* waitOnResults (lines 470-477), the case <-ctx.Done().
RunWaitDone ==
    /\ run_pc \in {"waitT", "waitP", "waitD"}
    /\ CtxDone(ctx)
    /\ wr' = [wr EXCEPT ![WaitBranch(run_pc)] = CtxErr(ctx)]
    /\ run_pc' = AfterWait(run_pc, CtxErr(ctx))
    /\ UNCHANGED <<auxVars, inVars, cfgVars, run_abort, run_exit, auth_tenantID, auth_err,
                   authz, template, ctx, fx, envVars, depVars, cacheVars, ch, ch_log, dlVars,
                   gtVars>>

\* waitOnResults, the case err := <-results: the branch's send completes, or the channel
\* is closed and the receive yields nil.
RunWaitReceive ==
    /\ run_pc \in {"waitT", "waitP", "waitD"}
    /\ LET b == WaitBranch(run_pc)
       IN  /\ \/ Sending(b) # "nil"
              \/ ch[b] = "closed"
           /\ wr' = [wr EXCEPT ![b] = Sending(b)]
           /\ run_pc' = AfterWait(run_pc, Sending(b))
           /\ IF Sending(b) # "nil" /\ b = "deployment"
              THEN d_pc' = AfterSend(b)
              ELSE UNCHANGED d_pc
           /\ IF Sending(b) # "nil" /\ b # "deployment"
              THEN c_pc' = [c_pc EXCEPT ![b] = AfterSend(b)]
              ELSE UNCHANGED c_pc
    /\ UNCHANGED <<auxVars, inVars, cfgVars, run_abort, run_exit, auth_tenantID, auth_err,
                   authz, template, ctx, fx, envVars, d_err, dd_how, dd_params, rg_ret, c_err,
                   ch, ch_log, dlVars, gtVars>>

\* Run's closure ends (line 482).
RunExit ==
    /\ run_pc = "exit"
    /\ RunReturns(run_abort)
    /\ UNCHANGED <<auxVars, inVars, cfgVars, auth_tenantID, auth_err, authz, template, wr, fx,
                   envVars, depVars, cacheVars, ch, ch_log, dlVars, gtVars>>

DeployFailsLogsOnly(err) ==
    /\ d_err' = err
    /\ d_pc' = "submit"

\* The goroutine holds err: it logs, sends it on errOut and returns (the send is the
\* rendezvous with RunWaitReceive; the deferred close follows it).
DeployFails(err) ==
    /\ d_err' = err
    /\ d_pc' = "send"

\* insertResourceGroup, lines 600-608 and 623-625: groups.CheckExistence and the switch on
\* its status. callOk: the call returns no error; odd: the status is neither 204 nor 404.
RgCheckExistence(callOk, odd) ==
    /\ d_pc = "check"
    /\ fx' = fx \cup {"rg_check"}
    /\ IF ~callOk
       THEN /\ rg_ret' = [created |-> FALSE,
                          err |-> IF ctx = "live" THEN "existence check error" ELSE CtxErr(ctx)]
            /\ DeployFails(rg_ret'.err)
       ELSE IF odd
       THEN /\ rg_ret' = [created |-> FALSE, err |-> "unexpected status code (existence check)"]
            /\ DeployFails(rg_ret'.err)
       ELSE IF rgRegion # "absent"
       THEN /\ rg_ret' = [created |-> FALSE, err |-> "none"]
            /\ d_pc' = "submit"
            /\ UNCHANGED d_err
       ELSE /\ d_pc' = "create"
            /\ UNCHANGED <<rg_ret, d_err>>
    /\ UNCHANGED <<auxVars, inVars, cfgVars, runVars, ctx, envVars, dd_how, dd_params,
                   cacheVars, ch,  dlVars, gtVars>>
    /\ ch_log' = IF d_pc' = "send" THEN Logged("deployment", "send") ELSE ch_log

\* insertResourceGroup, lines 609-622: groups.CreateOrUpdate and the test of its status.
\* The provider answers 201 when it creates the group and 200 when the group exists.
RgCreateOrUpdate(callOk, odd) ==
    /\ d_pc = "create"
    /\ fx' = fx \cup {"rg_create"}
    /\ IF ~callOk
       THEN /\ rg_ret' = [created |-> FALSE,
                          err |-> IF ctx = "live" THEN "creation error" ELSE CtxErr(ctx)]
            /\ DeployFails(rg_ret'.err)
            /\ UNCHANGED rgRegion
       ELSE IF odd
       THEN /\ rg_ret' = [created |-> FALSE, err |-> "unexpected status code (creation)"]
            /\ DeployFails(rg_ret'.err)
            /\ UNCHANGED rgRegion
       ELSE /\ rg_ret' = [created |-> rgRegion = "absent", err |-> "none"]
            /\ rgRegion' = IF rgRegion = "absent" THEN rg_location ELSE rgRegion
            /\ d_pc' = "submit"
            /\ UNCHANGED d_err
    /\ UNCHANGED <<auxVars, inVars, cfgVars, runVars, ctx, rg_location, files, dd_how,
                   dd_params, cacheVars, ch,  dlVars, gtVars>>
    /\ ch_log' = IF d_pc' = "send" THEN Logged("deployment", "send") ELSE ch_log

\* The provider's side: the resource group exists already, or someone else creates it
\* between the existence check and the creation. Only insertResourceGroup observes the
\* group, so the step is taken while it runs.
ProviderHasGroup ==
    /\ d_pc \in {"check", "create"}
    /\ rgRegion = "absent"
    /\ rgRegion' = "eastus"
    /\ UNCHANGED <<auxVars, inVars, cfgVars, runVars, ctx, fx, rg_location, files, depVars,
                   cacheVars, ch, ch_log, dlVars, gtVars>>

DoDeploymentErrOneValue(sdkErr) == "deployment failed"

\* The error doDeployment returns for the error an SDK call gave it (named result err,
\* lines 706-712): that error, unchanged.
DoDeploymentErr(sdkErr) == sdkErr

\* The error an SDK call that met `how` returns.
SdkErr(how) ==
    CASE how = "deadline" -> "context deadline exceeded"
      [] how = "cancelled" -> "context canceled"
      [] how = "provider" -> "deployment failed"
      [] OTHER -> "nil"

\* What a call given ctx can meet: the provider's answers while ctx is live, and only the
\* end of ctx once it is over.
SdkOutcomes(c) ==
    CASE c = "live" -> {"ok", "provider"}
      [] c = "expired" -> {"deadline"}
      [] OTHER -> {"cancelled"}

\* doDeployment, lines 702-709: deployments.CreateOrUpdate.
DeploySubmit(how) ==
    /\ d_pc = "submit"
    /\ how \in SdkOutcomes(ctx)
    /\ fx' = fx \cup {"deploy_submit"}
    /\ dd_how' = how
    /\ dd_params' = TemplateParameters
    /\ IF how = "ok"
       THEN d_pc' = "poll" /\ UNCHANGED d_err
       ELSE DeployFails(DoDeploymentErr(SdkErr(how)))
    /\ UNCHANGED <<auxVars, inVars, cfgVars, runVars, ctx, envVars, rg_ret, cacheVars, ch,
                    dlVars, gtVars>>
    /\ ch_log' = IF d_pc' = "send" THEN Logged("deployment", "send") ELSE ch_log

\* doDeployment, line 711: fut.WaitForCompletion, which polls until the deployment is in a
\* terminal state or ctx is over. running: this poll finds the deployment still running.
DeployPoll(how, running) ==
    /\ d_pc = "poll"
    /\ how \in SdkOutcomes(ctx)
    /\ fx' = fx \cup {"deploy_poll"}
    /\ UNCHANGED dd_params
    /\ IF how = "ok" /\ running
       THEN UNCHANGED <<d_pc, d_err, dd_how>>
       ELSE /\ dd_how' = how
            /\ IF how = "ok"
               THEN d_pc' = "close" /\ UNCHANGED d_err
               ELSE DeployFails(DoDeploymentErr(SdkErr(how)))
    /\ UNCHANGED <<auxVars, inVars, cfgVars, runVars, ctx, envVars, rg_ret, cacheVars, ch,
                    dlVars, gtVars>>
    /\ ch_log' = IF d_pc' = "send" THEN Logged("deployment", "send") ELSE ch_log

\* defer close(errOut) of the deployment goroutine.
DeployClose ==
    /\ d_pc = "close"
    /\ d_pc' = "end"
    /\ ch' = [ch EXCEPT !["deployment"] = "closed"]
    /\ ch_log' = Logged("deployment", "close:branch")
    /\ UNCHANGED <<auxVars, inVars, cfgVars, runVars, ctx, fx, envVars, d_err, dd_how,
                   dd_params, rg_ret, cacheVars, dlVars, gtVars>>

CacheContentsOfOriginal(b) ==
    IF b = "template" THEN <<"json", template>> ELSE <<"json", deployParams>>

\* What each cache file is written from (lines 461 and 467): the template's bytes, and
\* the copy of the parameters stripPasswords returns.
CacheContents(b) ==
    IF b = "template" THEN <<"json", template>> ELSE <<"json", stripPasswords(deployParams)>>

\* doCache and cache (lines 445-455, 577-591): os.Create, Encode, Close. cache does not
\* look at ctx. how: "ok", or the call that fails.
CacheWrite(b, how) ==
    /\ c_pc[b] = "run"
    /\ fx' = fx \cup {IF b = "template" THEN "cache_template" ELSE "cache_params"}
    /\ files' = [files EXCEPT ![b] =
                    CASE how = "ok" -> CacheContents(b)
                      [] how = "encode error" -> <<"json">>
                      [] OTHER -> @]
    /\ IF how = "ok"
       THEN /\ c_pc' = [c_pc EXCEPT ![b] = "close"]
            /\ UNCHANGED c_err
       ELSE /\ c_pc' = [c_pc EXCEPT ![b] = "send"]
            /\ c_err' = [c_err EXCEPT ![b] = how]
    /\ UNCHANGED <<auxVars, inVars, cfgVars, runVars, ctx, rgRegion, rg_location, depVars, ch,
                    dlVars, gtVars>>
    /\ ch_log' = IF how # "ok" THEN Logged(b, "send") ELSE ch_log

\* defer close(errOut) of a doCache goroutine.
CacheClose(b) ==
    /\ c_pc[b] = "close"
    /\ c_pc' = [c_pc EXCEPT ![b] = "end"]
    /\ ch' = [ch EXCEPT ![b] = "closed"]
    /\ ch_log' = Logged(b, "close:branch")
    /\ UNCHANGED <<auxVars, inVars, cfgVars, runVars, ctx, fx, envVars, depVars, c_err, dlVars,
                   gtVars>>

-----------------------------------------------------------------------------
(* The command: Args, then Run *)

\* The inputs: credentials, --use-device-auth, tenant, template location,
\* --skip-deployment. The flag is drawn where a credential is given (with none, Args sets
\* it), and the tenant where it is read: in runs that deploy.
Init ==
    /\ in_clientID \in BOOLEAN
    /\ in_clientSecret \in BOOLEAN
    /\ in_deviceFlag \in (IF in_clientID \/ in_clientSecret THEN BOOLEAN ELSE {FALSE})
    /\ in_explicit \in BOOLEAN
    /\ in_template \in (IF in_explicit THEN UserLocations ELSE DefaultLocations)
    /\ in_skipDeployment \in (IF in_deviceFlag THEN {FALSE} ELSE BOOLEAN)
    /\ cfg_deviceAuth = in_deviceFlag
    /\ cfg_skipT = "flag"
    /\ cfg_skipP = "flag"
    /\ run_pc = "args"
    /\ run_abort = "none"
    /\ run_exit = "none"
    /\ auth_tenantID = ""
    /\ auth_err = "nil"
    /\ authz = "none"
    /\ template = <<>>
    /\ wr = [b \in Branches |-> "pending"]
    /\ ctx = "none"
    /\ fx = {}
    /\ rgRegion = "absent"
    /\ rg_location = LocationDefault
    /\ rg_ret = [created |-> FALSE, err |-> "none"]
    /\ files = [b \in CacheBranches |-> "absent"]
    /\ d_pc = "off"
    /\ d_err = "nil"
    /\ dd_how = "none"
    /\ dd_params = NoParameters
    /\ c_pc = [b \in CacheBranches |-> "off"]
    /\ c_err = [b \in CacheBranches |-> "nil"]
    /\ ch = [b \in Branches |-> "none"]
    /\ ch_log = [b \in Branches |-> <<>>]
    /\ DlIdle
    /\ tenantWorld = <<>>
    /\ gt_pc = "idle"
    /\ gt_t = 0
    /\ gt_s = 0
    /\ gt_err = "nil"
    /\ gt_ierr = "nil"
    /\ gt_ret = NoReturn
    /\ cfg_tenant \in (IF in_skipDeployment THEN {""}
                       ELSE IF in_deviceFlag THEN {"t9"}
                       ELSE {"", commonTenant, "t9"})
    /\ cfg_writes = 0
    /\ gt_minted = <<>>
    /\ gt_scanned = <<>>
    /\ gt_failedAt = 0
    /\ gt_failure = "nil"
    /\ StripIdle
    /\ EnIdle
    /\ TdIdle

\* The account of a run of the whole command: at most one tenant, whose subscriptions
\* carry these IDs.
CmdSubIDs == {"A", "b"}

\* getTenant's steps inside the command: its calls that take ctx fail once ctx is over.
CmdGetTenant ==
    /\ run_pc = "gettenant"
    /\ \/ (\E ok \in OkUnder(ctx), more \in BOOLEAN : GetTenantList(ok, more))
             /\ fx' = fx \cup {"tenant_list"}
       \/ GetTenantOuter /\ UNCHANGED fx
       \/ (\E ok \in BOOLEAN : GetTenantMint(ok)) /\ UNCHANGED fx
       \/ (\E ok \in OkUnder(ctx), more \in BOOLEAN, id \in CmdSubIDs :
               GetTenantListSubs(ok, more, id)) /\ fx' = fx \cup {"subscription_list"}
       \/ GetTenantInner /\ UNCHANGED fx
       \/ (\E ok \in OkUnder(ctx), more \in BOOLEAN, id \in CmdSubIDs :
               GetTenantSubNext(ok, more, id)) /\ fx' = fx \cup {"subscription_list"}
       \/ (\E ok \in OkUnder(ctx) : GetTenantNext(ok, FALSE))
             /\ fx' = fx \cup {"tenant_list"}
       \/ GetTenantAfter /\ UNCHANGED fx
    /\ UNCHANGED <<auxVars, inVars, cfgVars, runVars, ctx, envVars, depVars, cacheVars, ch,
                   ch_log, dlVars>>

\* The statuses a template server answers with in a run of the whole command.
CmdStatuses == {200, 302, 408, 404}

\* downloadTemplate's steps inside the command: the request carries ctx.
CmdDownload ==
    /\ run_pc = "download"
    /\ \/ DownloadEnter /\ UNCHANGED fx
       \/ DownloadExhausted /\ UNCHANGED fx
       \/ DownloadRequestError /\ fx' = fx \cup {"template_get"}
       \/ /\ ctx = "live"
          /\ \E status \in CmdStatuses, loc \in {"u1"}, body \in {"B1"}, copyOk \in BOOLEAN :
                 DownloadResponse(status, loc, body, copyOk)
          /\ fx' = fx \cup {"template_get"}
    /\ UNCHANGED <<auxVars, inVars, cfgVars, runVars, ctx, envVars, depVars, cacheVars, ch,
                   ch_log, gtVars>>

Next ==
    \/ RunArgs
    \/ RunBegin
    \/ Expire
    \/ \E ok \in BOOLEAN : AuthConfig(ok)
    \/ \E ok \in BOOLEAN : AuthDeviceInit(ok)
    \/ \E ok \in BOOLEAN : AuthDeviceWait(ok)
    \/ CmdGetTenant
    \/ AuthGetTenantReturn
    \/ \E ok \in BOOLEAN : AuthServicePrincipal(ok)
    \/ \E ok \in BOOLEAN : RunTemplate(ok)
    \/ CmdDownload
    \/ RunDownloadReturn
    \/ RunSpawnDeployment
    \/ \E b \in CacheBranches, skip \in BOOLEAN : RunSpawnCache(b, skip)
    \/ RunWaitDone
    \/ RunWaitReceive
    \/ RunExit
    \/ \E callOk \in OkUnder(ctx), odd \in BOOLEAN : RgCheckExistence(callOk, odd)
    \/ \E callOk \in OkUnder(ctx), odd \in BOOLEAN : RgCreateOrUpdate(callOk, odd)
    \/ ProviderHasGroup
    \/ \E how \in {"ok", "provider", "deadline", "cancelled"} : DeploySubmit(how)
    \/ \E how \in {"ok", "provider", "deadline", "cancelled"}, running \in BOOLEAN :
           DeployPoll(how, running)
    \/ DeployClose
    \/ \E b \in CacheBranches, how \in {"ok", "create error", "encode error"} :
           CacheWrite(b, how)
    \/ \E b \in CacheBranches : CacheClose(b)

Spec == Init /\ [][Next]_vars

-----------------------------------------------------------------------------
(* insertResourceGroup on its own (provision.go 599-626), against a provider that *)
(* keeps the resource groups, under SpecEnsure                                     *)

\* Calls of insertResourceGroup that are followed in one behaviour.
MaxCalls == 2

\* net/http's names for the statuses insertResourceGroup tests.
StatusOK == 200
StatusCreated == 201
StatusNoContent == 204
StatusNotFound == 404

\* The error values insertResourceGroup returns: nil, the error of the SDK call, and the
\* two fmt.Errorf values, which carry the status code.
ErrNil == [kind |-> "nil", code |-> 0]
RequestError == [kind |-> "request", code |-> 0]
UnexpectedStatus(during, code) == [kind |-> "unexpected status code during " \o during,
                                   code |-> code]

CheckOutcomePresentIsCreated(status) ==
    CASE status = StatusNoContent -> [next |-> "return", created |-> TRUE, err |-> ErrNil]
      [] status = StatusNotFound -> [next |-> "create", created |-> FALSE, err |-> ErrNil]
      [] OTHER -> [next |-> "return", created |-> FALSE,
                   err |-> UnexpectedStatus("resource group existence check", status)]

CheckOutcomePresentCreates(status) ==
    CASE status = StatusNoContent -> [next |-> "create", created |-> FALSE, err |-> ErrNil]
      [] status = StatusNotFound -> [next |-> "create", created |-> FALSE, err |-> ErrNil]
      [] OTHER -> [next |-> "return", created |-> FALSE,
                   err |-> UnexpectedStatus("resource group existence check", status)]

\* The switch on existenceResp.StatusCode, lines 605-625: return (false, nil) for 204, go on
\* to CreateOrUpdate for 404, return an error for anything else.
CheckOutcome(status) ==
    CASE status = StatusNoContent -> [next |-> "return", created |-> FALSE, err |-> ErrNil]
      [] status = StatusNotFound -> [next |-> "create", created |-> FALSE, err |-> ErrNil]
      [] OTHER -> [next |-> "return", created |-> FALSE,
                   err |-> UnexpectedStatus("resource group existence check", status)]

CreateOutcomeAnySuccessCreated(status) ==
    IF status \in {StatusCreated, StatusOK}
    THEN [created |-> TRUE, err |-> ErrNil]
    ELSE [created |-> FALSE, err |-> UnexpectedStatus("resource group creation", status)]

\* The test of createResp.StatusCode, lines 616-622.
CreateOutcome(status) ==
    IF status = StatusCreated THEN [created |-> TRUE, err |-> ErrNil]
    ELSE IF status = StatusOK THEN [created |-> FALSE, err |-> ErrNil]
    ELSE [created |-> FALSE, err |-> UnexpectedStatus("resource group creation", status)]

\* What the provider can answer to CheckExistence: 204 for a group it has, 404 for one it
\* has not, or a status that says neither.
ExistenceStatuses(name) ==
    {IF rg_store[name] = "absent" THEN StatusNotFound ELSE StatusNoContent} \cup {StatusOK, 403}

\* What the provider can answer to CreateOrUpdate: 201 when it creates the group, 200 when
\* the group was there, or a status that says neither (and then it has changed nothing).
CreationStatuses(name) ==
    {IF rg_store[name] = "absent" THEN StatusCreated ELSE StatusOK} \cup {202, 409}

\* insertResourceGroup returns (created, err): the call is recorded and its frame is gone.
\* createResp is the status of CreateOrUpdate (0: not called, or no response), creates the
\* number of CreateOrUpdate requests the call issued, store the provider's groups after it.
EnsureReturns(created, err, createResp, creates, store) ==
    /\ en_calls' = Append(en_calls,
                          [name |-> en_name, location |-> en_location, before |-> en_before,
                           existenceResp |-> existenceResp', createResp |-> createResp,
                           creates |-> creates, created |-> created, err |-> err,
                           after |-> store[en_name]])
    /\ en_pc' = "idle"

\* A caller enters insertResourceGroup(ctx, groups, name, location).
EnsureCall(name, location) ==
    /\ en_pc = "idle"
    /\ Len(en_calls) < MaxCalls
    /\ en_pc' = "check"
    /\ en_name' = name
    /\ en_location' = location
    /\ existenceResp' = 0
    /\ en_before' = rg_store[name]
    /\ UNCHANGED <<rg_store, en_foreign, en_calls>>

\* Lines 600-608 and 623-625: groups.CheckExistence and the switch on its status.
EnsureCheckExistence(callOk, status) ==
    /\ en_pc = "check"
    /\ status \in ExistenceStatuses(en_name)
    /\ IF ~callOk
       THEN /\ existenceResp' = 0
            /\ EnsureReturns(FALSE, RequestError, 0, 0, rg_store)
       ELSE /\ existenceResp' = status
            /\ IF CheckOutcome(status).next = "create"
               THEN /\ en_pc' = "create"
                    /\ UNCHANGED en_calls
               ELSE EnsureReturns(CheckOutcome(status).created, CheckOutcome(status).err,
                                  0, 0, rg_store)
    /\ UNCHANGED <<rg_store, en_name, en_location, en_before, en_foreign>>

\* Lines 609-622: groups.CreateOrUpdate with Location: &location, and the test of its
\* status. The provider creates the group in that region when it answers 201.
EnsureCreateOrUpdate(callOk, status) ==
    /\ en_pc = "create"
    /\ status \in CreationStatuses(en_name)
    /\ rg_store' = IF callOk /\ status = StatusCreated
                   THEN [rg_store EXCEPT ![en_name] = en_location]
                   ELSE rg_store
    /\ UNCHANGED <<en_name, en_location, existenceResp, en_before, en_foreign>>
    /\ IF ~callOk
       THEN EnsureReturns(FALSE, RequestError, 0, 1, rg_store')
       ELSE EnsureReturns(CreateOutcome(status).created, CreateOutcome(status).err,
                          status, 1, rg_store')

\* Somebody else creates a resource group, at any moment.
EnsureForeign(name, region) ==
    /\ rg_store[name] = "absent"
    /\ rg_store' = [rg_store EXCEPT ![name] = region]
    /\ en_foreign' = en_foreign \cup {name}
    /\ UNCHANGED <<en_pc, en_name, en_location, existenceResp, en_before, en_calls>>

InitEnsure ==
    /\ EnIdle
    /\ TdIdle
    /\ DlIdle
    /\ GtIdle
    /\ CmdIdle
    /\ StripIdle

NextEnsure ==
    \/ (\E name \in RgNames, location \in Regions : EnsureCall(name, location))
           /\ UNCHANGED <<dlVars, gtVars, cmdVars, spVars, tdVars>>
    \/ (\E callOk \in BOOLEAN, status \in {StatusOK, StatusNoContent, StatusNotFound, 403} :
           EnsureCheckExistence(callOk, status))
           /\ UNCHANGED <<dlVars, gtVars, cmdVars, spVars, tdVars>>
    \/ (\E callOk \in BOOLEAN, status \in {StatusOK, StatusCreated, 202, 409} :
           EnsureCreateOrUpdate(callOk, status))
           /\ UNCHANGED <<dlVars, gtVars, cmdVars, spVars, tdVars>>
    \/ (\E name \in RgNames, region \in Regions : EnsureForeign(name, region))
           /\ UNCHANGED <<dlVars, gtVars, cmdVars, spVars, tdVars>>

SpecEnsure == InitEnsure /\ [][NextEnsure]_vars

-----------------------------------------------------------------------------
(* TypeDispatchSubscriber (servicebus_test.go 155-237): Bind, Unbind, Handler and *)
(* one request at a time through Receive, under SpecDispatch. Bind and Unbind     *)
(* run between requests: the map is not guarded against a concurrent Receive.     *)

\* Events of one batch.
MaxBatch == 2

\* The event type the default handler is bound to.
EventTypeWildcard == "all"

\* Event types that arrive, types that get bound, and the handlers there are.
EventTypes == {"a", "A", "b"}
BindTypes == {"a", "A", EventTypeWildcard}
Handlers == {"h1", "h2"}

\* A batch: up to MaxBatch events, each given by its event type.
Batches == UNION {[1..n -> EventTypes] : n \in 0..MaxBatch}

\* The response codes a handler may write to ctx (0: it writes none).
HandlerCodes == {0, 200, 201, 500}

\* The codes after which ctx does not report a failure.
SuccessStatusCodes == {200, 201}

StatusBadRequest == 400
StatusInternalServerError == 500

\* strings.ToUpper
ToUpper(str) ==
    CASE str = "a" -> "A"
      [] str = "b" -> "B"
      [] str = "all" -> "ALL"
      [] OTHER -> str

\* NormalizeEventType, lines 184-189.
NormalizeEventType(eventType) ==
    IF normalizeTypeCase THEN ToUpper(eventType) ELSE eventType

\* Handler, lines 231-237: the binding of the event type, upper-cased first when
\* normalizeTypeCase is set; ok says whether there is one.
Handler(eventType) ==
    LET key == IF normalizeTypeCase THEN ToUpper(eventType) ELSE eventType
    IN  [handler |-> IF key \in DOMAIN bindings THEN bindings[key] ELSE "nil",
         ok |-> key \in DOMAIN bindings]

\* Bind, lines 171-174.
Bind(eventType, handler) ==
    /\ td_pc = "idle"
    /\ bindings' = [k \in DOMAIN bindings \cup {NormalizeEventType(eventType)} |->
                        IF k = NormalizeEventType(eventType) THEN handler ELSE bindings[k]]
    /\ UNCHANGED <<normalizeTypeCase, td_pc, events, td_bindErr, td_ran, td_handled, td_codes,
                   td_nohandler, ctx_failure, td_status>>

\* Unbind, lines 178-181.
Unbind(eventType) ==
    /\ td_pc = "idle"
    /\ NormalizeEventType(eventType) \in DOMAIN bindings
    /\ bindings' = [k \in DOMAIN bindings \ {NormalizeEventType(eventType)} |-> bindings[k]]
    /\ UNCHANGED <<normalizeTypeCase, td_pc, events, td_bindErr, td_ran, td_handled, td_codes,
                   td_nohandler, ctx_failure, td_status>>

\* Receive, lines 199-209: c.Bind(&events); on an error Receive returns c.Error(400, err),
\* otherwise it makes ctx and starts one goroutine per event.
Receive(batch, bindOk) ==
    /\ td_pc = "idle"
    /\ td_bindErr' = ~bindOk
    /\ events' = IF bindOk THEN batch ELSE <<>>
    /\ td_pc' = IF bindOk THEN "running" ELSE "done"
    /\ td_status' = IF bindOk THEN 0 ELSE StatusBadRequest
    /\ td_ran' = {}
    /\ td_handled' = [i \in DOMAIN events' |-> <<>>]
    /\ td_codes' = [i \in DOMAIN events' |-> 0]
    /\ td_nohandler' = {}
    /\ ctx_failure' = FALSE
    /\ UNCHANGED <<bindings, normalizeTypeCase>>

ChosenWildcardToo(byType, byWildcard) ==
    (IF byType.ok THEN <<byType.handler>> ELSE <<>>)
        \o (IF byWildcard.ok THEN <<byWildcard.handler>> ELSE <<>>)

\* The if-chain of the goroutine, lines 211-217: the handlers the event is passed to, given
\* the answers of s.Handler(event.EventType) and s.Handler(EventTypeWildcard).
Chosen(byType, byWildcard) ==
    IF byType.ok THEN <<byType.handler>>
    ELSE IF byWildcard.ok THEN <<byWildcard.handler>>
    ELSE <<>>

\* Whether ctx reports a failure once a handler has written code.
ResponseFails(code) == code # 0 /\ code \notin SuccessStatusCodes

\* The goroutine of event i, lines 210-219. The handler it calls writes `code` to ctx. With
\* no handler it calls ctx.Error(400, ...) and drops the value; `marks` says whether that
\* call leaves a failure in ctx.
Dispatch(i, code, marks) ==
    /\ td_pc = "running"
    /\ i \in DOMAIN events
    /\ i \notin td_ran
    /\ LET chosen == Chosen(Handler(events[i]), Handler(EventTypeWildcard))
       IN  IF chosen # <<>>
           THEN /\ td_handled' = [td_handled EXCEPT ![i] = @ \o chosen]
                /\ td_codes' = [td_codes EXCEPT ![i] = code]
                /\ ctx_failure' = (ctx_failure \/ ResponseFails(code))
                /\ UNCHANGED td_nohandler
           ELSE /\ td_nohandler' = td_nohandler \cup {i}
                /\ ctx_failure' = (ctx_failure \/ marks)
                /\ UNCHANGED <<td_handled, td_codes>>
    /\ td_ran' = td_ran \cup {i}
    /\ UNCHANGED <<bindings, normalizeTypeCase, td_pc, events, td_bindErr, td_status>>

ReceiveStatusAlwaysOK(failure) == StatusOK

\* Lines 223-227: c.Error(500, ...) when ctx.ResponseHasFailure(), WriteHeader(200) otherwise.
ReceiveStatus(failure) == IF failure THEN StatusInternalServerError ELSE StatusOK

\* wg.Wait() returns once every goroutine has called wg.Done; then lines 223-227.
ReceiveWait ==
    /\ td_pc = "running"
    /\ td_ran = DOMAIN events
    /\ td_status' = ReceiveStatus(ctx_failure)
    /\ td_pc' = "done"
    /\ UNCHANGED <<bindings, normalizeTypeCase, events, td_bindErr, td_ran, td_handled,
                   td_codes, td_nohandler, ctx_failure>>

\* The request is over; its events, ctx and wait group are gone.
ReceiveReturn ==
    /\ td_pc = "done"
    /\ td_pc' = "idle"
    /\ events' = <<>>
    /\ td_bindErr' = FALSE
    /\ td_ran' = {}
    /\ td_handled' = <<>>
    /\ td_codes' = <<>>
    /\ td_nohandler' = {}
    /\ ctx_failure' = FALSE
    /\ td_status' = 0
    /\ UNCHANGED <<bindings, normalizeTypeCase>>

InitDispatch ==
    /\ bindings = NoBindings
    /\ normalizeTypeCase \in BOOLEAN
    /\ td_pc = "idle"
    /\ events = <<>>
    /\ td_bindErr = FALSE
    /\ td_ran = {}
    /\ td_handled = <<>>
    /\ td_codes = <<>>
    /\ td_nohandler = {}
    /\ ctx_failure = FALSE
    /\ td_status = 0
    /\ EnIdle
    /\ DlIdle
    /\ GtIdle
    /\ CmdIdle
    /\ StripIdle

NextDispatch ==
    \/ (\E eventType \in BindTypes, handler \in Handlers : Bind(eventType, handler))
           /\ UNCHANGED <<dlVars, gtVars, cmdVars, spVars, enVars>>
    \/ (\E eventType \in BindTypes : Unbind(eventType))
           /\ UNCHANGED <<dlVars, gtVars, cmdVars, spVars, enVars>>
    \/ (\E batch \in Batches, bindOk \in BOOLEAN : Receive(batch, bindOk))
           /\ UNCHANGED <<dlVars, gtVars, cmdVars, spVars, enVars>>
    \/ (\E i \in 1..MaxBatch, code \in HandlerCodes, marks \in BOOLEAN : Dispatch(i, code, marks))
           /\ UNCHANGED <<dlVars, gtVars, cmdVars, spVars, enVars>>
    \/ ReceiveWait /\ UNCHANGED <<dlVars, gtVars, cmdVars, spVars, enVars>>
    \/ ReceiveReturn /\ UNCHANGED <<dlVars, gtVars, cmdVars, spVars, enVars>>

SpecDispatch == InitDispatch /\ [][NextDispatch]_vars

-----------------------------------------------------------------------------
(* Properties of getTenant, checked under SpecTenant *)

\* C1: an error from minting a tenant-scoped token or from listing or advancing a
\* tenant's subscriptions is returned at once as that error: no tenant after the failing
\* one gets a token minted, and what getTenant returns is that error, never "unable to
\* find subscription" and never a match.
C1_ErrorReturnedImmediately ==
    gt_failedAt # 0 =>
        /\ \A i \in 1..Len(gt_minted) : gt_minted[i] <= gt_failedAt
        /\ gt_pc = "done" => gt_ret.err = gt_failure

-----------------------------------------------------------------------------
(* Properties of downloadTemplate, checked under SpecDownload *)

\* The transient set as the specification lists it.
SpecTransient == {408, 429, 502, 504}

\* C2: after a response whose status is in {408, 429, 502, 504}, with fewer than
\* maxRetries requests made on the hop, the download has not failed: it is back in the
\* loop, on the same URL and at the same redirect depth.
C2_TransientRetriesSameHop ==
    (dl_last \in SpecTransient /\ dl_hopReqs < maxRetries) =>
        /\ dl_pc = "loop"
        /\ dl_err = "none"
        /\ dl_src = dl_lastUrl
        /\ dl_depth = dl_lastDepth

\* C3: a finished download has failed with "too many redirects" exactly when it received
\* more than maxRedirects = 5 redirect responses, and a 200 after at most 5 redirects is
\* a success.
C3_RedirectBound ==
    dl_pc = "done" =>
        /\ dl_err = "too many redirects" <=> dl_redirects > 5
        /\ (dl_last = 200 /\ dl_redirects <= 5) => dl_err \in {"none", "copy error"}

C5_DefaultTemplateFallback ==
    (~in_explicit /\ in_template = TemplateDefaultLink) => run_abort # "template"

\* C6: the outcome the command reports is a failure whenever the deployment branch
\* reported an error, and is not a failure when only a cache branch did.
C6_OutcomeFollowsDeployment ==
    (run_pc = "returned" /\ run_abort = "none" /\ wr["deployment"] \notin CtxErrors) =>
        (run_exit = "failure" <=> wr["deployment"] # "nil")

\* C7: when the deadline passes while Run waits for a branch, the command reports a
\* cancellation outcome of its own.
C7_ExpiryReported ==
    (run_pc = "returned" /\ \E b \in Branches : wr[b] = "context deadline exceeded") =>
        run_exit = "cancelled"

\* C8: the error doDeployment returns when ctx ends during the submission or the polling
\* is the context's error, and the error it returns for a failure the provider reports is
\* another value.
C8_CancellationDistinct ==
    /\ dd_how \in {"deadline", "cancelled"} => d_err \in CtxErrors
    /\ dd_how = "provider" => d_err \notin CtxErrors \cup {"nil"}

C8_Witness ==
    /\ dd_how = "deadline"
    /\ d_pc = "send"
    /\ d_err = "context deadline exceeded"
    /\ "deploy_poll" \in fx

\* What the deployment branch and the cache branches do to the outside.
ProvisioningEffects ==
    {"rg_check", "rg_create", "deploy_submit", "deploy_poll", "cache_template", "cache_params"}

\* C9: in a run where getAuthorizer or getDeploymentTemplate failed, no branch is started
\* and there is no existence check, no creation, no deployment and no cache write.
C9_AbortBeforeProvisioning ==
    run_abort \in {"auth", "template"} =>
        /\ fx \cap ProvisioningEffects = {}
        /\ d_pc = "off"
        /\ \A b \in CacheBranches : c_pc[b] = "off"
        /\ files = [b \in CacheBranches |-> "absent"]
        /\ rgRegion = "absent"

C9_Witness ==
    /\ run_pc = "returned"
    /\ run_abort = "template"
    /\ authz # "none"
    /\ "template_get" \in fx

\* C10: no branch's failure cancels or prevents another branch. The context is cancelled
\* only by Run's return, and unless the deadline passed Run returns only after every
\* started branch has done its work; every branch the caller did not opt out of is started
\* whatever the others do.
C10_BranchesIndependent ==
    /\ ctx = "cancelled" => run_pc = "returned"
    /\ (ctx = "cancelled" /\ run_abort = "none") =>
           /\ d_pc \in {"off", "close", "end"}
           /\ \A b \in CacheBranches : c_pc[b] \in {"off", "close", "end"}
    /\ (\E b \in CacheBranches : c_err[b] # "nil") =>
           /\ in_skipDeployment <=> d_pc = "off"
           /\ d_err = "nil" => d_pc # "send"
    /\ (d_err # "nil" /\ run_pc \in {"waitT", "waitP", "waitD", "exit", "returned"}) =>
           /\ c_pc["template"] = "off" <=> cfg_skipT = "true"
           /\ c_pc["params"] = "off" <=> cfg_skipP = "true"

C10_Witness ==
    /\ ctx = "cancelled"
    /\ run_abort = "none"
    /\ c_err["template"] # "nil"
    /\ wr["template"] = c_err["template"]
    /\ d_pc = "end"
    /\ dd_how = "ok"
    /\ wr["deployment"] = "nil"
    /\ files["params"] # "absent"

\* C11: when Run returns after the branches were set up, each of the three waits has ended,
\* and it ended either with what the branch's channel gave (the branch's error, or nil from
\* the closed channel of a branch that is over or was never started) or with the passing
\* of the deadline; an error from one branch does not end the waiting.
C11_WaitsForAllThree ==
    (run_pc = "returned" /\ run_abort = "none") =>
        \A b \in Branches :
            /\ wr[b] # "pending"
            /\ wr[b] \in CtxErrors => (wr[b] = "context deadline exceeded" /\ ctx = "expired")
            /\ wr[b] = "nil" => ch[b] = "closed"
            /\ wr[b] \notin CtxErrors \cup {"nil"} =>
                   wr[b] = (IF b = "deployment" THEN d_err ELSE c_err[b])

C11_Witness ==
    /\ run_pc = "returned"
    /\ run_abort = "none"
    /\ wr["template"] = "create error"
    /\ wr["params"] = "nil"
    /\ wr["deployment"] = "deployment failed"
    /\ ctx = "cancelled"

\* C12: a branch the caller opted out of does none of its work and its channel is closed
\* as soon as Run has set it up, so that a receive on it yields nil: with --skip-deployment
\* there is no existence check, no creation and no deployment; with a cache skip flag set
\* the file is not written.
C12_SkippedBranchDoesNothing ==
    /\ in_skipDeployment =>
           /\ d_pc = "off" /\ d_err = "nil" /\ rgRegion = "absent"
           /\ fx \cap {"rg_check", "rg_create", "deploy_submit", "deploy_poll"} = {}
           /\ ch["deployment"] \in {"none", "closed"}
           /\ run_pc \in {"spawnT", "spawnP", "waitT", "waitP", "waitD", "exit"} =>
                  ch["deployment"] = "closed"
           /\ wr["deployment"] \in {"pending", "nil", "context deadline exceeded"}
    /\ cfg_skipT = "true" =>
           /\ c_pc["template"] = "off" /\ files["template"] = "absent"
           /\ "cache_template" \notin fx
           /\ ch["template"] \in {"none", "closed"}
           /\ run_pc \in {"spawnP", "waitT", "waitP", "waitD", "exit"} => ch["template"] = "closed"
           /\ wr["template"] \in {"pending", "nil", "context deadline exceeded"}
    /\ cfg_skipP = "true" =>
           /\ c_pc["params"] = "off" /\ files["params"] = "absent"
           /\ "cache_params" \notin fx
           /\ ch["params"] \in {"none", "closed"}
           /\ run_pc \in {"waitT", "waitP", "waitD", "exit"} => ch["params"] = "closed"
           /\ wr["params"] \in {"pending", "nil", "context deadline exceeded"}

C12_Witness ==
    /\ run_pc = "returned"
    /\ run_abort = "none"
    /\ in_skipDeployment
    /\ in_explicit
    /\ cfg_skipT = "true"
    /\ cfg_skipP = "false"
    /\ files["params"] # "absent"
    /\ wr = [b \in Branches |-> "nil"]

\* C13: the parameters document on disk never holds the key
\* databaseAdministratorLoginPassword or dockerRegistryServerPassword, while the parameters
\* the deployment was submitted with hold both, with the values Run gave them.
C13_PersistedParametersSanitized ==
    /\ (files["params"] # "absent" /\ files["params"] # <<"json">>) =>
           /\ "databaseAdministratorLoginPassword" \notin DOMAIN files["params"][2].Parameters
           /\ "dockerRegistryServerPassword" \notin DOMAIN files["params"][2].Parameters
           /\ files["params"][2].Parameters["name"] = "site"
    /\ "deploy_submit" \in fx =>
           /\ {"databaseAdministratorLoginPassword", "dockerRegistryServerPassword"}
                  \subseteq DOMAIN dd_params
           /\ dd_params["databaseAdministratorLoginPassword"] = "database password"
           /\ dd_params["dockerRegistryServerPassword"] = "registry password"

C13_Witness ==
    /\ "deploy_submit" \in fx
    /\ "cache_params" \in fx
    /\ files["params"] # "absent"
    /\ files["params"] # <<"json">>
    /\ DOMAIN files["params"][2].Parameters = {"name"}
    /\ DOMAIN dd_params = ParameterKeys

\* C14: for every parameter set, stripPasswords' result holds neither password key, holds
\* every other entry of the argument with its value, and has the argument's schema and
\* content version; called on its own result it returns an equal value.
C14_StripTotalIdempotent ==
    sp_calls > 0 =>
        /\ DOMAIN sp_copy.Parameters =
               DOMAIN sp_original.Parameters
                   \ {"databaseAdministratorLoginPassword", "dockerRegistryServerPassword"}
        /\ \A k \in DOMAIN sp_copy.Parameters : sp_copy.Parameters[k] = sp_original.Parameters[k]
        /\ sp_copy.Schema = sp_original.Schema
        /\ sp_copy.ContentVersion = sp_original.ContentVersion
        /\ sp_calls = 2 => sp_copy = sp_original

C14_Witness ==
    /\ sp_calls = 2
    /\ sp_copy = sp_original
    /\ DOMAIN sp_copy.Parameters = {"name"}
    /\ sp_copy.Schema = "schema2"

\* C14's other case: an argument without the password keys comes back equal.
C14_WitnessNoSecrets ==
    /\ sp_calls = 1
    /\ DOMAIN sp_original.Parameters = {"name"}
    /\ sp_copy = sp_original

\* The IDs that equal the target subscription ID "a" when letter case is ignored.
TargetIDs == {"a", "A"}

\* C15: getTenant returns a tenant exactly when a subscription the provider delivered
\* carries the target ID in any letter case; the tenant it returns is the first such
\* tenant in the provider's order, and after the first such subscription it compares no
\* other subscription, asks for no further subscription and looks at no further tenant.
C15_FirstMatchReturns ==
    /\ \A i \in 1..(Len(gt_scanned) - 1) :
           tenantWorld[gt_scanned[i][1]][gt_scanned[i][2]] \notin TargetIDs
    /\ (gt_pc = "done" /\ gt_ret.err = "none") =>
           /\ gt_scanned # <<>>
           /\ LET t == gt_scanned[Len(gt_scanned)][1]
                  s == gt_scanned[Len(gt_scanned)][2]
              IN  /\ tenantWorld[t][s] \in TargetIDs
                  /\ gt_ret.tenant = TenantID(t)
                  /\ Len(tenantWorld) = t
                  /\ Len(tenantWorld[t]) = s
                  /\ gt_minted[Len(gt_minted)] = t
                  /\ \A u \in 1..t : \A k \in 1..Len(tenantWorld[u]) :
                         tenantWorld[u][k] \in TargetIDs => (u = t /\ k = s)
    /\ (gt_pc = "done" /\ gt_ret.err # "none") =>
           \A u \in 1..Len(tenantWorld) : \A k \in 1..Len(tenantWorld[u]) :
               tenantWorld[u][k] \notin TargetIDs

C15_Witness ==
    /\ gt_pc = "done"
    /\ gt_ret = [tenant |-> "t2", auth |-> "t2", err |-> "none"]
    /\ tenantWorld = <<<<"b", NilID>>, <<"b", "A">>>>
    /\ gt_scanned = <<<<1, 1>>, <<1, 2>>, <<2, 1>>, <<2, 2>>>>

\* C16: when no call fails and no subscription the provider delivers carries the target
\* ID, getTenant returns "unable to find subscription" after it has minted a token for
\* every tenant once, in order, and compared every subscription of every tenant once.
C16_NotFoundAfterFullScan ==
    (/\ gt_pc = "done"
     /\ gt_err = "nil"
     /\ gt_failedAt = 0
     /\ \A u \in 1..Len(tenantWorld) : \A k \in 1..Len(tenantWorld[u]) :
            tenantWorld[u][k] \notin TargetIDs) =>
        /\ gt_ret = [tenant |-> "", auth |-> "", err |-> "unable to find subscription"]
        /\ gt_minted = [u \in 1..Len(tenantWorld) |-> u]
        /\ \A u \in 1..Len(tenantWorld) : \A k \in 1..Len(tenantWorld[u]) :
               Cardinality({i \in 1..Len(gt_scanned) : gt_scanned[i] = <<u, k>>}) = 1
        /\ \A i \in 1..Len(gt_scanned) :
               /\ gt_scanned[i][1] \in 1..Len(tenantWorld)
               /\ gt_scanned[i][2] \in 1..Len(tenantWorld[gt_scanned[i][1]])
        /\ \A i \in 1..(Len(gt_scanned) - 1) :
               \/ /\ gt_scanned[i + 1][1] = gt_scanned[i][1]
                  /\ gt_scanned[i + 1][2] = gt_scanned[i][2] + 1
               \/ /\ gt_scanned[i + 1][1] > gt_scanned[i][1]
                  /\ gt_scanned[i + 1][2] = 1
        /\ cfg_writes = 0

C16_Witness ==
    /\ gt_pc = "done"
    /\ gt_ret.err = "unable to find subscription"
    /\ gt_failedAt = 0
    /\ tenantWorld = <<<<"b", NilID>>, <<"b">>>>
    /\ gt_scanned = <<<<1, 1>>, <<1, 2>>, <<2, 1>>>>
    /\ gt_minted = <<1, 2>>

\* C17: provisionConfig's tenant ID is written at most once in a run, by getTenant, and
\* at a moment when no branch has been started: no goroutine runs and no result channel
\* exists yet.
C17_TenantWrittenOnceBeforeBranches ==
    [][(cfg_tenant' # cfg_tenant \/ cfg_writes' # cfg_writes) =>
           /\ cfg_writes = 0
           /\ cfg_writes' = 1
           /\ run_pc = "gettenant"
           /\ gt_pc = "inner"
           /\ cfg_tenant' = gt_ret'.tenant
           /\ d_pc = "off"
           /\ \A b \in CacheBranches : c_pc[b] = "off"
           /\ \A b \in Branches : ch[b] = "none"]_vars

C17_Witness ==
    /\ cfg_writes = 1
    /\ cfg_tenant = "t1"
    /\ authz = "t1"
    /\ d_pc = "submit"
    /\ c_pc["params"] = "run"

C19_FlowFollowsCredentials ==
    /\ (in_clientID /\ in_clientSecret) => fx \cap {"device_code", "device_poll"} = {}
    /\ "device_code" \in fx => (~in_clientID /\ ~in_clientSecret)
    /\ "sp_token" \in fx => (in_clientID /\ in_clientSecret)

C21_DeviceFlowTenant ==
    /\ [](/\ run_pc = "gettenant" =>
                 (auth_tenantID = commonTenant /\ "device_poll" \in fx /\ authz = "none")
          /\ authz = "bearer:device" =>
                 /\ cfg_tenant \notin {"", commonTenant}
                 /\ auth_tenantID = cfg_tenant
                 /\ cfg_writes = 0
                 /\ fx \cap {"tenant_list", "subscription_list"} = {}
                 /\ "device_poll" \in fx
          /\ "tenant_list" \in fx =>
                 ("device_poll" \in fx /\ (cfg_writes = 1 \/ cfg_tenant \in {"", commonTenant})))
    /\ [][("device_poll" \notin fx /\ "device_poll" \in fx' /\ auth_err' = "nil") =>
              run_pc' = (IF auth_tenantID = commonTenant THEN "gettenant" ELSE "template")]_vars
    /\ [][(run_pc = "gettenant" /\ run_pc' # "gettenant") =>
              IF gt_ret.err = "none"
              THEN authz' = gt_ret.auth /\ auth_err' = "nil" /\ run_pc' = "template"
              ELSE authz' = "none" /\ auth_err' = gt_ret.err /\ run_pc' = "returned"]_vars

C21_Witness ==
    /\ authz = "t1"
    /\ cfg_tenant = "t1"
    /\ fx = {"device_code", "device_poll", "tenant_list", "subscription_list"}
    /\ run_pc = "template"

\* C21's other case: a resolved tenant.
C21_WitnessResolved ==
    /\ authz = "bearer:device"
    /\ fx = {"device_code", "device_poll"}
    /\ run_pc = "template"

-----------------------------------------------------------------------------
(* Properties of insertResourceGroup, checked under SpecEnsure *)

\* The provider answered every request of call c, and with a status that says whether the
\* group is there (existence check) or what became of it (creation).
Faultless(c) ==
    /\ c.existenceResp \in {StatusNoContent, StatusNotFound}
    /\ c.creates = 1 => c.createResp \in {StatusCreated, StatusOK}

\* C22: for a resource group that does not exist and that nobody else creates, two
\* successive calls of insertResourceGroup with the same name and location, both answered
\* by the provider, return created = true and then created = false, both without error,
\* and issue exactly one CreateOrUpdate request between them.
C22_EnsureIdempotent ==
    \A i \in 1..(Len(en_calls) - 1) :
        LET a == en_calls[i]
            b == en_calls[i + 1]
        IN  (/\ a.name = b.name
             /\ a.location = b.location
             /\ a.before = "absent"
             /\ a.name \notin en_foreign
             /\ Faultless(a)
             /\ Faultless(b))
            => /\ a.created /\ a.err = ErrNil
               /\ ~b.created /\ b.err = ErrNil
               /\ a.creates + b.creates = 1
               /\ b.after = a.location

C22_Witness ==
    /\ Len(en_calls) >= 2
    /\ en_foreign = {}
    /\ en_calls[1].before = "absent"
    /\ en_calls[1].created
    /\ en_calls[2].name = en_calls[1].name
    /\ en_calls[2].location = en_calls[1].location
    /\ en_calls[2].existenceResp = StatusNoContent
    /\ ~en_calls[2].created

\* C23: a call of insertResourceGroup whose existence check was answered 204 has issued no
\* CreateOrUpdate request and returns created = false without error, whatever location it
\* was given; a group that was there when the call began is in the same region after it.
C23_PresentLeftAlone ==
    \A i \in 1..Len(en_calls) :
        LET c == en_calls[i]
        IN  c.existenceResp = StatusNoContent
            => /\ c.creates = 0
               /\ c.createResp = 0
               /\ ~c.created
               /\ c.err = ErrNil
               /\ c.before # "absent" => c.after = c.before

C23_Witness ==
    /\ Len(en_calls) >= 2
    /\ en_calls[1].created
    /\ en_calls[1].location = "centralus"
    /\ en_calls[2].name = en_calls[1].name
    /\ en_calls[2].location = "eastus"
    /\ en_calls[2].existenceResp = StatusNoContent
    /\ en_calls[2].after = "centralus"

\* C24: insertResourceGroup returns (true, nil) for creation status 201 and (false, nil)
\* for creation status 200; for any other creation status, and for any existence status
\* other than 204 and 404, it returns created = false and an unexpected-status error that
\* carries the status.
C24_StatusMapping ==
    \A i \in 1..Len(en_calls) :
        LET c == en_calls[i]
        IN  /\ c.createResp = StatusCreated => (c.created /\ c.err = ErrNil)
            /\ c.createResp = StatusOK => (~c.created /\ c.err = ErrNil)
            /\ c.createResp \notin {0, StatusCreated, StatusOK}
                   => /\ ~c.created
                      /\ c.err = UnexpectedStatus("resource group creation", c.createResp)
            /\ c.existenceResp \notin {0, StatusNoContent, StatusNotFound}
                   => /\ ~c.created
                      /\ c.creates = 0
                      /\ c.err = UnexpectedStatus("resource group existence check",
                                                  c.existenceResp)

C24_Witness ==
    /\ Len(en_calls) >= 2
    /\ en_calls[1].createResp = StatusOK
    /\ ~en_calls[1].created
    /\ en_calls[2].existenceResp = 403
    /\ en_calls[2].err.code = 403

\* C24's other cases: creation answered 201, and creation answered with another status.
C24_WitnessCreation ==
    /\ Len(en_calls) >= 2
    /\ en_calls[1].createResp = 202
    /\ en_calls[1].err.code = 202
    /\ en_calls[2].createResp = StatusCreated
    /\ en_calls[2].created

-----------------------------------------------------------------------------
(* More properties of downloadTemplate, checked under SpecDownload *)

\* C25: a download that was answered one to five redirects has not been refused for them,
\* and once a 200 has followed the redirects and its body could be copied, the download
\* has succeeded and the destination holds that body and nothing else; nothing is
\* written for a redirect or a retried response.
C25_RedirectsThenFinalBody ==
    /\ dl_redirects \in 1..5 => dl_err # "too many redirects"
    /\ (dl_pc = "done" /\ dl_last = 200 /\ dl_redirects >= 1 /\ dl_err # "copy error")
           => (dl_err = "none" /\ dl_dest = <<dl_lastBody>>)
    /\ (dl_pc # "done" \/ dl_last # 200) => dl_dest = <<>>

\* C26: a response whose status is not accepted, not a redirect and not retried ends the
\* download at once with "unexpected status code: <that status>", nothing written; the
\* download issues no request after it.
C26_UnexpectedStatusFailsAtOnce ==
    /\ [](dl_last \notin ({0} \cup acceptedCodes \cup redirectCodes \cup temporaryFailureCodes)
              => /\ dl_pc = "done"
                 /\ dl_err = "unexpected status code: " \o ToString(dl_last)
                 /\ dl_dest = <<>>)
    /\ [][dl_last \notin ({0} \cup acceptedCodes \cup redirectCodes \cup temporaryFailureCodes)
              => (dl_total' = dl_total /\ dl_redirects' = dl_redirects
                  /\ dl_attempt' = dl_attempt)]_vars

C26_Witness ==
    /\ dl_last = 500
    /\ dl_err = "unexpected status code: 500"
    /\ dl_redirects = 1
    /\ dl_hopTransient = 1
    /\ dl_pc = "done"

\* C30: the attempts of a hop are counted from zero on every hop, whatever was retried on
\* earlier hops, and "too many attempts" needs 3 retried responses on one hop; the depth
\* counts redirects only, so a retry leaves depth and URL alone and a redirect after
\* retries starts the next hop one deeper.
C30_RetryBudgetPerHop ==
    /\ [](/\ dl_attempt = dl_hopTransient
          /\ dl_pc = "loop" => dl_hopReqs = dl_hopTransient
          /\ dl_depth = FirstDepth + dl_redirects
          /\ dl_err = "too many attempts" => dl_hopTransient = 3
          /\ (dl_pc = "done" /\ dl_err # "too many attempts") => dl_hopTransient < 3)
    /\ [][dl_hopTransient' = dl_hopTransient + 1
              => (dl_depth' = dl_depth /\ dl_src' = dl_src /\ dl_pc' = "loop")]_vars
    /\ [][dl_redirects' = dl_redirects + 1
              => (dl_depth' = dl_depth + 1 /\ dl_pc' = "enter")]_vars
    /\ [][(dl_pc = "enter" /\ dl_pc' = "loop") => (dl_attempt' = 0 /\ dl_hopReqs' = 0)]_vars

C30_Witness ==
    /\ dl_redirects = 1
    /\ dl_total = 6
    /\ dl_hopReqs = 3
    /\ dl_hopTransient = 2
    /\ dl_err = "none"
    /\ dl_pc = "done"

-----------------------------------------------------------------------------
(* Properties of TypeDispatchSubscriber.Receive, checked under SpecDispatch *)

\* The handler an event of type t is meant for: the one bound to t (to t in upper case
\* when the subscriber normalizes), failing that the one bound to the wildcard, failing
\* that none.
MeantFor(t) ==
    LET key(x) == IF normalizeTypeCase THEN ToUpper(x) ELSE x
    IN  IF key(t) \in DOMAIN bindings THEN <<bindings[key(t)]>>
        ELSE IF key(EventTypeWildcard) \in DOMAIN bindings
        THEN <<bindings[key(EventTypeWildcard)]>>
        ELSE <<>>

\* C27: in Receive every event of the batch is passed to at most one handler, once: to
\* the handler bound to its type if there is one, otherwise to the wildcard handler if
\* there is one; never to both, never to the handler of another type, and never before
\* its own goroutine runs.
C27_ExactlyOneHandler ==
    \A i \in DOMAIN td_handled :
        /\ Len(td_handled[i]) <= 1
        /\ i \in td_ran => td_handled[i] = MeantFor(events[i])
        /\ i \notin td_ran => td_handled[i] = <<>>
        /\ i \in td_nohandler <=> (i \in td_ran /\ td_handled[i] = <<>>)

C27_Witness ==
    /\ td_pc = "done"
    /\ events = <<"a", "b">>
    /\ DOMAIN bindings = {"a", "A", EventTypeWildcard}
    /\ bindings["a"] = "h1"
    /\ bindings["A"] = "h2"
    /\ bindings[EventTypeWildcard] = "h2"
    /\ td_handled = <<(<<"h1">>), (<<"h2">>)>>

\* C28: when Receive has answered a request in which some event found neither a handler
\* for its type nor a wildcard handler, the status of the answer is 400.
C28_NoHandlerGives400 ==
    (td_pc = "done" /\ td_nohandler # {}) => td_status = StatusBadRequest

C29_WitnessSuccess ==
    /\ td_pc = "done"
    /\ Len(events) = 2
    /\ td_codes = <<201, 200>>
    /\ td_status = 200

-----------------------------------------------------------------------------
(* Properties of the result channels and of the end of Run, checked under Spec *)

\* Whether Run skipped branch b instead of starting its goroutine.
Skipped(b) ==
    CASE b = "deployment" -> in_skipDeployment
      [] b = "template" -> cfg_skipT = "true"
      [] OTHER -> cfg_skipP = "true"

\* The error branch b holds ("nil": none).
BranchErr(b) == IF b = "deployment" THEN d_err ELSE c_err[b]

\* C31: on each result channel there is at most one send and at most one close, and no
\* send after the close. A started branch closes its own channel, after its one send if
\* it holds an error and without any send if it holds none; a skipped branch's channel
\* is closed once, by Run, and nothing is sent on it.
C31_SingleErrorSignal ==
    \A b \in Branches :
        /\ ch_log[b] \in {<<>>, <<"send">>, <<"send", "close:branch">>, <<"close:branch">>,
                          <<"close:run">>}
        /\ ch[b] = "closed" <=> ch_log[b] \in {<<"send", "close:branch">>, <<"close:branch">>,
                                                <<"close:run">>}
        /\ ch[b] = "closed" => (Skipped(b) <=> ch_log[b] = <<"close:run">>)
        /\ ch[b] = "open" => ~Skipped(b)
        /\ ch_log[b] = <<"close:branch">> => BranchErr(b) = "nil"
        /\ (ch_log[b] # <<>> /\ ch_log[b][1] = "send") => BranchErr(b) # "nil"

C31_Witness ==
    /\ ch_log["deployment"] = <<"send", "close:branch">>
    /\ ch_log["template"] = <<"close:run">>
    /\ ch_log["params"] = <<"close:branch">>

\* Where the goroutine of branch b is ("off": it was not started).
BranchPc(b) == IF b = "deployment" THEN d_pc ELSE c_pc[b]

\* C32: when Run has returned, every branch it started is over or has handed over its
\* result and is at its deferred close: none is still at work, and none is blocked
\* sending its error on a channel nobody reads any more.
C32_BranchesJoined ==
    run_pc = "returned" =>
        \A b \in Branches : BranchPc(b) \in {"off", "close", "end"}

\* C33: the deployment goroutine submits the deployment only after insertResourceGroup
\* has returned without error, the resource group then being there; once
\* insertResourceGroup has returned an error, that error is what the goroutine reports,
\* and no deployment is submitted, then or later.
C33_SubmitAfterEnsure ==
    /\ ("deploy_submit" \in fx \/ d_pc \in {"submit", "poll"})
           => /\ "rg_check" \in fx
              /\ rg_ret.err = "none"
              /\ rgRegion # "absent"
    /\ rg_ret.err # "none"
           => /\ "deploy_submit" \notin fx
              /\ d_err = rg_ret.err
              /\ d_pc \in {"send", "close", "end"}
              /\ ch_log["deployment"][1] = "send"
              /\ wr["deployment"] \in {"pending", rg_ret.err} \cup CtxErrors

C33_Witness ==
    /\ rg_ret.err = "unexpected status code (creation)"
    /\ wr["deployment"] = rg_ret.err
    /\ d_pc = "end"
    /\ run_pc = "returned"

\* C33's other case: insertResourceGroup created the group and the deployment went in.
C33_WitnessSubmitted ==
    /\ rg_ret = [created |-> TRUE, err |-> "none"]
    /\ "deploy_submit" \in fx
    /\ d_pc = "end"

-----------------------------------------------------------------------------
(* The end of Run, checked under SpecLive: Spec with the scheduling that Run's own *)
(* goroutine and the deadline's timer have. Nothing is assumed of the branches.    *)

\* Run's goroutine takes its next step when it can, and the timer of
\* context.WithTimeout (line 338) fires while ctx is live.
SpecLive ==
    /\ Spec
    /\ WF_vars(Expire)
    /\ WF_vars(RunSpawnDeployment)
    /\ WF_vars(\E b \in CacheBranches, skip \in BOOLEAN : RunSpawnCache(b, skip))
    /\ WF_vars(RunWaitDone)
    /\ WF_vars(RunWaitReceive)
    /\ WF_vars(RunExit)

\* Run is at the statements that start the branches or wait for them.
AtBranches == run_pc \in {"spawn", "spawnT", "spawnP", "waitT", "waitP", "waitD", "exit"}

\* C34: once Run is at the branches it returns, whatever the branches do; a wait that
\* finds the deadline over can always go on.
C34_RunReturns == AtBranches ~> run_pc = "returned"

C34_Witness ==
    /\ run_pc = "returned"
    /\ ctx = "expired"
    /\ d_pc = "poll"
    /\ c_pc["params"] = "run"
    /\ wr["deployment"] = "context deadline exceeded"

-----------------------------------------------------------------------------
(* Termination of downloadTemplate, checked under SpecDownloadLive: every request is *)
(* answered or fails, and download() takes its next step                              *)

SpecDownloadLive == SpecDownload /\ WF_vars(NextDownload)

\* C35: whatever the server answers, a call of downloadTemplate comes to its end, and it
\* issues at most maxRedirects * maxRetries = 15 requests.
C35_DownloadTerminates ==
    /\ <>(dl_pc = "done")
    /\ [](dl_total <= 15 /\ dl_total <= maxRedirects * maxRetries)

C35_Witness ==
    /\ dl_pc = "done"
    /\ dl_total = 15
    /\ dl_redirects = 5
    /\ dl_err = "too many redirects"

====
